---------------------------- MODULE Csapp_proofs ----------------------------
(***************************************************************************)
(* Proofs about csapp.c, for every value of the constants.                 *)
(*                                                                         *)
(* The Rio functions: IInv is an invariant for every stream, every size of *)
(* the pipe and of rio_buf, and every request.  The writer's half and the  *)
(* reader's half of IInv are preserved by the steps of the other process   *)
(* because those touch only their own end of the pipe; what is left is one *)
(* lemma per action.                                                       *)
(*                                                                         *)
(* open_clientfd and open_listenfd: what they leave open, for any number   *)
(* of addresses and any table of descriptors the two threads share.        *)
(***************************************************************************)
EXTENDS Csapp, FiniteSetTheorems, WellFoundedInduction, TLAPS

(***************************************************************************)
(* The Rio functions.                                                      *)
(***************************************************************************)
(* The initial states satisfy IInv: nothing has been written or read.      *)
LEMMA InitIInv == Init => IInv
<1> SUFFICES ASSUME Init PROVE IInv
  OBVIOUS
<1> USE RioAssumption DEF Init, Unread
<1>1. TypeOK
  <2>1. /\ -1 \in Bytes /\ Unset = -1
        /\ 0 \in 0 .. Total /\ 0 \in 0 .. MaxLen /\ 0 \in 0 .. MaxLen + 1
        /\ 0 \in -1 .. MaxLen /\ 0 \in 0 .. RIO_BUFSIZE /\ 0 \in -1 .. RIO_BUFSIZE
    BY DEF Bytes, Unset
  <2>2. call \in [fn : {"none", "rio_readn", "rio_readnb", "rio_readlineb"},
                  st : {"called", "line", "returned"}, n : 0 .. MaxLen, ret : -1 .. MaxLen]
    BY <2>1
  <2>3. /\ stream \in [1 .. Total -> Bytes] /\ out \in [1 .. Total -> Bytes]
        /\ rio_buf \in [0 .. RIO_BUFSIZE - 1 -> Bytes]
        /\ usrbuf \in [0 .. MaxLen - 1 -> Bytes]
    BY <2>1
  <2>4. /\ put \in 0 .. Total /\ taken \in 0 .. put /\ got \in 0 .. Total /\ lost \in 0 .. Total
        /\ wn \in Nat /\ wleft \in Nat /\ wbufp \in Nat /\ wbase \in 0 .. Total
        /\ rio_bufptr \in 0 .. RIO_BUFSIZE /\ rio_cnt \in -1 .. RIO_BUFSIZE
        /\ nleft \in 0 .. MaxLen /\ n \in 0 .. MaxLen + 1 /\ bufp \in 0 .. MaxLen
    BY <2>1
  <2>5. /\ closed \in BOOLEAN /\ buffered \in BOOLEAN
        /\ wpc \in {"idle", "writing", "exited"} /\ errno \in {"none", "EINTR", "other"}
    OBVIOUS
  <2>6. QED
    BY <2>2, <2>3, <2>4, <2>5, Zenon DEF TypeOK
<1>2. WroteAll /\ InOrder /\ Accounted /\ ShortMeansEOF /\ LineAnswered
  BY DEF WroteAll, InOrder, Accounted, ShortMeansEOF, LineAnswered
<1>3. WriterInv /\ BufferInv /\ CallInv /\ AnswerInv /\ LineInv
  BY DEF WriterInv, BufferInv, CallInv, AnswerInv, LineInv
<1>4. QED
  BY <1>1, <1>2, <1>3 DEF IInv

(* The half of IInv that speaks of the reader, the pipe seen through taken *)
(* and EndOfFile.                                                          *)
ReaderInv ==
  /\ InOrder /\ Accounted /\ ShortMeansEOF /\ LineAnswered
  /\ BufferInv /\ CallInv /\ AnswerInv /\ LineInv

(* A step of the writer that keeps end of file leaves the reader's half.   *)
LEMMA ReaderFrame ==
  ASSUME ReaderInv, UNCHANGED readerVars, taken' = taken, EndOfFile => EndOfFile'
  PROVE  ReaderInv'
<1> USE DEF readerVars, rioVars, localVars, auxVars, Unread
<1>1. InOrder' /\ Accounted' /\ BufferInv' /\ CallInv' /\ AnswerInv' /\ LineInv'
  BY DEF ReaderInv, InOrder, Accounted, BufferInv, CallInv, AnswerInv, LineInv, IsNewline
<1>2. ShortMeansEOF' /\ LineAnswered'
  BY DEF ReaderInv, ShortMeansEOF, LineAnswered, IsNewline
<1>3. QED
  BY <1>1, <1>2 DEF ReaderInv

(* The writer's half.                                                      *)
WriterHalf == WroteAll /\ WriterInv

(* A step of the reader leaves the writer's half.                          *)
LEMMA WriterFrame ==
  ASSUME WriterHalf, UNCHANGED writerVars, UNCHANGED <<stream, put, closed>>
  PROVE  WriterHalf'
BY DEF WriterHalf, WroteAll, WriterInv, writerVars

(* IInv is its type, and the two halves.                                   *)
LEMMA Halves == IInv <=> TypeOK /\ WriterHalf /\ ReaderInv
BY DEF IInv, WriterHalf, ReaderInv

(* Every step of the writer keeps IInv.                                    *)
LEMMA WriterStep == ASSUME IInv, Writer PROVE IInv'
<1> USE RioAssumption
<1>0. TypeOK /\ WriterHalf /\ ReaderInv
  BY Halves
<1>1. ASSUME NEW k \in WriteSizes, rio_writen(k) PROVE IInv'
  <2> USE <1>0, <1>1 DEF rio_writen, pipeVars
  <2>1. TypeOK'
    BY DEF TypeOK, readerVars, rioVars, localVars, auxVars
  <2>2. WriterHalf'
    BY DEF TypeOK, WriterHalf, WroteAll, WriterInv
  <2>3. ReaderInv'
    BY ReaderFrame DEF EndOfFile
  <2>4. QED
    BY <2>1, <2>2, <2>3, Halves DEF IInv, WriterHalf, ReaderInv
<1>2. ASSUME NEW k \in 1 .. Total, Write(k) PROVE IInv'
  <2> USE <1>0, <1>2 DEF Write, Writing
  <2>0. /\ put \in 0 .. Total /\ taken \in 0 .. put /\ stream \in [1 .. Total -> Bytes]
        /\ wleft \in Nat /\ wbufp \in Nat /\ wn \in Nat /\ wbase \in 0 .. Total
        /\ wbufp + wleft = wn /\ put = wbase + wbufp /\ wbase + wn <= Total
        /\ k \in 1 .. wleft /\ ~ closed
    BY DEF TypeOK, WriterHalf, WriterInv
  <2>1. put' \in 0 .. Total /\ taken' \in 0 .. put'
    BY <2>0
  <2>2. \A j \in 1 .. put' : stream'[j] = j
    BY <2>0 DEF WriterHalf, WroteAll, usr
  <2>3. stream' \in [1 .. Total -> Bytes]
    BY <2>0 DEF usr, Bytes
  <2>a. wleft' \in Nat /\ wbufp' \in Nat
    BY <2>0
  <2>4. TypeOK'
    BY <2>1, <2>3, <2>a DEF TypeOK, readerVars, rioVars, localVars, auxVars
  <2>5. WriterHalf'
    BY <2>0, <2>2 DEF WriterHalf, WroteAll, WriterInv
  <2>6. ReaderInv'
    BY <2>0, ReaderFrame DEF EndOfFile
  <2>7. QED
    BY <2>4, <2>5, <2>6 DEF IInv, WriterHalf, ReaderInv
<1>3. ASSUME WriteInterrupted PROVE IInv'
  <2> USE <1>0, <1>3 DEF WriteInterrupted, pipeVars
  <2>1. TypeOK'
    BY DEF TypeOK, readerVars, rioVars, localVars, auxVars
  <2>2. WriterHalf'
    BY DEF WriterHalf, WroteAll, WriterInv
  <2>3. ReaderInv'
    BY ReaderFrame DEF EndOfFile
  <2>4. QED
    BY <2>1, <2>2, <2>3 DEF IInv, WriterHalf, ReaderInv
<1>4. ASSUME Exit, errno' \in {"none", "EINTR", "other"} PROVE IInv'
  <2> USE <1>0, <1>4 DEF Exit
  <2>1. TypeOK'
    BY DEF TypeOK, readerVars, rioVars, localVars, auxVars
  <2>2. WriterHalf'
    BY DEF WriterHalf, WroteAll, WriterInv
  <2>3. ReaderInv'
    BY ReaderFrame DEF EndOfFile
  <2>4. QED
    BY <2>1, <2>2, <2>3 DEF IInv, WriterHalf, ReaderInv
<1>5. ASSUME WriteReturns PROVE IInv'
  <2> USE <1>0, <1>5 DEF WriteReturns, pipeVars
  <2>1. TypeOK'
    BY DEF TypeOK, WriterHalf, WriterInv, readerVars, rioVars, localVars, auxVars
  <2>2. WriterHalf'
    BY DEF TypeOK, WriterHalf, WroteAll, WriterInv
  <2>3. ReaderInv'
    BY ReaderFrame DEF EndOfFile
  <2>4. QED
    BY <2>1, <2>2, <2>3 DEF IInv, WriterHalf, ReaderInv
<1>6. QED
  BY <1>0, <1>1, <1>2, <1>3, <1>4, <1>5
     DEF Writer, WriteFails, WriteZero, WriterEnds, TypeOK

(* A new call has moved nothing yet.                                       *)
LEMMA CallStep ==
  ASSUME IInv, NEW fn \in {"rio_readn", "rio_readnb", "rio_readlineb"}, NEW k \in 1 .. MaxLen,
         Call(fn, k), fn = "rio_readn" <=> ~ buffered
  PROVE  IInv'
<1> USE RioAssumption DEF Call, pipeVars, writerVars, rioVars, auxVars
<1>0. TypeOK /\ WriterHalf /\ ReaderInv
  BY Halves
<1>a. /\ call' = [fn |-> fn, st |-> "called", n |-> k, ret |-> 0]
      /\ call'.fn = fn /\ call'.st = "called" /\ call'.n = k
      /\ nleft' = k /\ n' = 1 /\ bufp' = 0
  OBVIOUS
<1>b. k \in 0 .. MaxLen /\ 1 \in 0 .. MaxLen + 1 /\ 0 \in 0 .. MaxLen /\ 0 \in -1 .. MaxLen
  OBVIOUS
<1>1. TypeOK'
  <2>1. call' \in [fn : {"none", "rio_readn", "rio_readnb", "rio_readlineb"},
                   st : {"called", "line", "returned"}, n : 0 .. MaxLen, ret : -1 .. MaxLen]
    BY <1>a, <1>b
  <2>2. usrbuf' \in [0 .. MaxLen - 1 -> Bytes]
    BY <1>0 DEF TypeOK, Bytes, Unset
  <2>3. QED
    BY <1>0, <1>a, <1>b, <2>1, <2>2 DEF TypeOK
<1>2. WriterHalf'
  BY <1>0, WriterFrame
<1>3. ShortMeansEOF' /\ LineAnswered' /\ Accounted'
  BY <1>a DEF ShortMeansEOF, LineAnswered, Accounted
<1>4. InOrder' /\ AnswerInv' /\ BufferInv'
  BY <1>0 DEF ReaderInv, InOrder, AnswerInv, BufferInv, Unread
<1>5. CallInv'
  BY <1>0, <1>a DEF TypeOK, ReaderInv, Accounted, CallInv, Unread
<1>6. LineInv'
  BY <1>a DEF LineInv
<1>7. QED
  BY <1>1, <1>2, <1>3, <1>4, <1>5, <1>6 DEF IInv, WriterHalf

(* What Return does to the answered bytes, when usrbuf holds the bufp      *)
(* bytes behind them: they are answered, or they are lost.                 *)
LEMMA ReturnKeeps ==
  ASSUME TypeOK, InOrder, AnswerInv,
         got + lost + bufp + Unread = taken,
         \A i \in 0 .. bufp - 1 : usrbuf'[i] = got + lost + 1 + i,
         NEW ret \in {-1, bufp}, Return(ret, bufp)
  PROVE  /\ InOrder' /\ AnswerInv'
         /\ got' + lost' = got + lost + bufp
         /\ got' \in 0 .. Total /\ lost' \in 0 .. Total /\ out' \in [1 .. Total -> Bytes]
<1> USE RioAssumption
<1>0. /\ got \in 0 .. Total /\ lost \in 0 .. Total /\ bufp \in 0 .. MaxLen
      /\ Unread \in Nat /\ taken \in 0 .. Total /\ out \in [1 .. Total -> Bytes]
  BY DEF TypeOK, Unread
<1>a. \A j \in 1 .. got : j \in DOMAIN out /\ out[j] \in Int
  BY <1>0 DEF Bytes
<1>1. CASE ret < 0
  <2>1. got' = got /\ out' = out /\ lost' = lost + bufp
    BY <1>0, <1>1 DEF Return
  <2>2. InOrder'
    BY <1>0, <2>1 DEF InOrder
  <2>3. AnswerInv'
    BY <1>0, <1>a, <2>1 DEF AnswerInv
  <2>4. QED
    BY <1>0, <2>1, <2>2, <2>3
<1>2. CASE ret >= 0
  <2>1. /\ ret = bufp /\ got' = got + bufp /\ lost' = lost
        /\ out' = [j \in DOMAIN out |->
                     IF got < j /\ j <= got + bufp THEN usrbuf'[j - got - 1] ELSE out[j]]
    BY <1>0, <1>2 DEF Return
  <2>2. got' \in 0 .. Total /\ lost' \in 0 .. Total
    BY <1>0, <2>1
  <2>3. \A j \in 1 .. got : out'[j] = out[j]
    BY <1>0, <2>1
  <2>4. \A j \in got + 1 .. got' : out'[j] = lost + j
    <3>1. SUFFICES ASSUME NEW j \in got + 1 .. got' PROVE out'[j] = lost + j
      OBVIOUS
    <3>2. /\ j \in DOMAIN out /\ got < j /\ j <= got + bufp
          /\ j - got - 1 \in 0 .. bufp - 1
      BY <1>0, <2>1, <2>2
    <3>3. out'[j] = usrbuf'[j - got - 1]
      BY <2>1, <3>2
    <3>4. usrbuf'[j - got - 1] = got + lost + 1 + (j - got - 1)
      BY <3>2
    <3>5. QED
      BY <1>0, <3>3, <3>4
  <2>5. \A j \in 1 .. got' : j \in 1 .. got \/ j \in got + 1 .. got'
    BY <1>0, <2>1
  <2>6. out' \in [1 .. Total -> Bytes]
    <3>1. \A j \in 1 .. Total : out'[j] \in Bytes
      <4>1. SUFFICES ASSUME NEW j \in 1 .. Total PROVE out'[j] \in Bytes
        OBVIOUS
      <4>2. CASE j \in got + 1 .. got'
        BY <1>0, <2>1, <2>4, <4>2 DEF Bytes
      <4>3. CASE ~ (j \in got + 1 .. got')
        BY <1>0, <2>1, <4>3
      <4>4. QED
        BY <4>2, <4>3
    <3>2. QED
      BY <1>0, <2>1, <3>1
  <2>7. AnswerInv'
    <3>1. SUFFICES ASSUME NEW j \in 1 .. got' PROVE 1 <= out'[j] /\ out'[j] <= got' + lost'
      BY DEF AnswerInv
    <3>2. CASE j \in 1 .. got
      <4>1. out'[j] = out[j] /\ 1 <= out[j] /\ out[j] <= got + lost
        BY <2>3, <3>2 DEF AnswerInv
      <4>2. QED
        BY <1>0, <1>a, <2>1, <3>2, <4>1
    <3>3. CASE j \in got + 1 .. got'
      BY <1>0, <2>1, <2>4, <3>3
    <3>4. QED
      BY <2>5, <3>2, <3>3
  <2>8. \A i, j \in 1 .. got' : i < j => out'[i] < out'[j]
    <3>1. SUFFICES ASSUME NEW i \in 1 .. got', NEW j \in 1 .. got', i < j
                   PROVE  out'[i] < out'[j]
      OBVIOUS
    <3>2. CASE j \in 1 .. got
      BY <1>0, <2>1, <2>3, <3>1, <3>2 DEF InOrder
    <3>3. CASE i \in 1 .. got /\ j \in got + 1 .. got'
      <4>1. out'[i] = out[i] /\ out[i] <= got + lost /\ out'[j] = lost + j
        BY <2>3, <2>4, <3>3 DEF AnswerInv
      <4>2. out[i] \in Int
        BY <1>0, <3>3 DEF Bytes
      <4>3. QED
        BY <1>0, <2>1, <3>3, <4>1, <4>2
    <3>4. CASE i \in got + 1 .. got' /\ j \in got + 1 .. got'
      BY <1>0, <2>1, <2>4, <3>1, <3>4
    <3>5. QED
      BY <1>0, <2>1, <2>5, <3>1, <3>2, <3>3, <3>4
  <2>9. lost' = 0 => \A j \in 1 .. got' : out'[j] = j
    BY <1>0, <2>1, <2>3, <2>4, <2>5 DEF InOrder
  <2>10. InOrder'
    BY <2>8, <2>9 DEF InOrder
  <2>11. QED
    BY <1>0, <2>1, <2>2, <2>6, <2>7, <2>10
<1>3. QED
  BY <1>0, <1>1, <1>2

(* read brings the next k bytes of the stream.                             *)
LEMMA MovedBytes ==
  ASSUME TypeOK, WroteAll, NEW N \in Nat, NEW dest \in [0 .. N - 1 -> Bytes],
         NEW at \in Nat, NEW k \in Nat, k <= put - taken
  PROVE  /\ Moved(dest, at, k) \in [0 .. N - 1 -> Bytes]
         /\ \A i \in 0 .. N - 1 :
              Moved(dest, at, k)[i] = IF at <= i /\ i < at + k THEN taken + 1 + (i - at) ELSE dest[i]
<1> USE RioAssumption
<1>0. put \in 0 .. Total /\ taken \in 0 .. put
  BY DEF TypeOK
<1>1. \A i \in 0 .. N - 1 :
        Moved(dest, at, k)[i] = IF at <= i /\ i < at + k THEN taken + 1 + (i - at) ELSE dest[i]
  <2>1. SUFFICES ASSUME NEW i \in 0 .. N - 1
                 PROVE  Moved(dest, at, k)[i] =
                          IF at <= i /\ i < at + k THEN taken + 1 + (i - at) ELSE dest[i]
    OBVIOUS
  <2>2. Moved(dest, at, k)[i] =
          IF at <= i /\ i < at + k THEN stream[taken + 1 + (i - at)] ELSE dest[i]
    BY DEF Moved
  <2>3. CASE at <= i /\ i < at + k
    <3>1. taken + 1 + (i - at) \in 1 .. put
      BY <1>0, <2>3
    <3>2. QED
      BY <2>2, <2>3, <3>1 DEF WroteAll
  <2>4. QED
    BY <2>2, <2>3
<1>2. \A i \in 0 .. N - 1 : Moved(dest, at, k)[i] \in Bytes
  BY <1>0, <1>1 DEF Bytes
<1>3. DOMAIN Moved(dest, at, k) = 0 .. N - 1
  BY DEF Moved
<1>4. Moved(dest, at, k) = [i \in 0 .. N - 1 |-> Moved(dest, at, k)[i]]
  BY DEF Moved
<1>5. QED
  BY <1>1, <1>2, <1>4

(* A read of rio_readn moves the next bytes to the caller.                 *)
LEMMA ReadnSomeStep ==
  ASSUME IInv, NEW k \in Nat, ReadnSome(k) PROVE IInv'
<1> USE RioAssumption
<1>0. TypeOK /\ WriterHalf /\ ReaderInv /\ WroteAll
  BY Halves DEF IInv
<1>1. /\ call.fn = "rio_readn" /\ call.st = "called" /\ nleft > 0
      /\ k \in 1 .. nleft /\ k <= put - taken
      /\ usrbuf' = Moved(usrbuf, bufp, k) /\ taken' = taken + k
      /\ nleft' = nleft - k /\ bufp' = bufp + k
      /\ UNCHANGED <<stream, put, closed, writerVars, buffered, rioVars, call, n, auxVars>>
  BY <1>0 DEF ReadnSome, ReadnMore, In, Readable, Least, TypeOK
<1>2. /\ ~ buffered /\ rio_cnt = 0 /\ Unread = 0 /\ bufp + nleft = call.n
      /\ got + lost + bufp = taken
      /\ \A i \in 0 .. bufp - 1 : usrbuf[i] = got + lost + 1 + i
  BY <1>0, <1>1 DEF ReaderInv, BufferInv, CallInv, TypeOK, Unread
<1>3. /\ put \in 0 .. Total /\ taken \in 0 .. put /\ bufp \in 0 .. MaxLen /\ nleft \in 0 .. MaxLen
      /\ call.n \in 0 .. MaxLen /\ got \in Nat /\ lost \in Nat
      /\ usrbuf \in [0 .. MaxLen - 1 -> Bytes]
  BY <1>0 DEF TypeOK
<1>4. /\ usrbuf' \in [0 .. MaxLen - 1 -> Bytes]
      /\ \A i \in 0 .. MaxLen - 1 : usrbuf'[i] =
           IF bufp <= i /\ i < bufp + k THEN taken + 1 + (i - bufp) ELSE usrbuf[i]
  BY <1>0, <1>1, <1>3, MovedBytes
<1>5. taken' \in 0 .. put /\ bufp' \in 0 .. MaxLen /\ nleft' \in 0 .. MaxLen
  BY <1>1, <1>2, <1>3
<1>6. TypeOK'
  BY <1>0, <1>1, <1>4, <1>5 DEF TypeOK, writerVars, rioVars, auxVars
<1>7. WriterHalf'
  BY <1>0, <1>1, WriterFrame
<1>8. \A i \in 0 .. bufp' - 1 : usrbuf'[i] = got + lost + 1 + i
  BY <1>1, <1>2, <1>3, <1>4
<1>9. InOrder' /\ AnswerInv'
  BY <1>0, <1>1 DEF ReaderInv, InOrder, AnswerInv, auxVars
<1>10. Accounted' /\ ShortMeansEOF' /\ LineAnswered' /\ LineInv'
  BY <1>1 DEF Accounted, ShortMeansEOF, LineAnswered, LineInv
<1>11. BufferInv'
  BY <1>0, <1>1, <1>2 DEF TypeOK, ReaderInv, BufferInv, Unread, rioVars
<1>12. CallInv'
  BY <1>0, <1>1, <1>2, <1>3, <1>8 DEF ReaderInv, CallInv, Unread, rioVars, auxVars
<1>13. QED
  BY <1>6, <1>7, <1>9, <1>10, <1>11, <1>12 DEF IInv, WriterHalf

(* Any step that returns: what is left to show of it is the type of the    *)
(* locals and the promise of the function that answers.                    *)
LEMMA ReturnStep ==
  ASSUME IInv, call.st # "returned", NEW ret \in {-1, bufp},
         Return(ret, bufp),
         UNCHANGED <<pipeVars, writerVars, buffered, rio_buf, rio_bufptr, nleft, n, bufp>>,
         rio_cnt' \in -1 .. RIO_BUFSIZE, Unread' = Unread, ~ buffered => rio_cnt' = rio_cnt,
         usrbuf' \in [0 .. MaxLen - 1 -> Bytes],
         \A i \in 0 .. bufp - 1 : usrbuf'[i] = usrbuf[i],
         ShortMeansEOF', LineAnswered'
  PROVE  IInv'
<1> USE RioAssumption
<1>0. TypeOK /\ WriterHalf /\ ReaderInv /\ InOrder /\ AnswerInv
  BY Halves DEF IInv
<1>1. /\ got + lost + bufp + Unread = taken
      /\ \A i \in 0 .. bufp - 1 : usrbuf[i] = got + lost + 1 + i
  BY <1>0 DEF ReaderInv, CallInv
<1>2. /\ InOrder' /\ AnswerInv' /\ got' + lost' = got + lost + bufp
      /\ got' \in 0 .. Total /\ lost' \in 0 .. Total /\ out' \in [1 .. Total -> Bytes]
  BY <1>0, <1>1, ReturnKeeps
<1>3. call' = [call EXCEPT !.st = "returned", !.ret = ret]
  BY DEF Return
<1>4. /\ call' \in [fn : {"none", "rio_readn", "rio_readnb", "rio_readlineb"},
                    st : {"called", "line", "returned"}, n : 0 .. MaxLen, ret : -1 .. MaxLen]
      /\ call'.st = "returned" /\ call'.fn = call.fn
  <2>1. ret \in -1 .. MaxLen
    BY <1>0 DEF TypeOK
  <2>2. QED
    BY <1>0, <1>3, <2>1 DEF TypeOK
<1>5. TypeOK'
  BY <1>0, <1>2, <1>4 DEF TypeOK, pipeVars, writerVars
<1>6. WriterHalf'
  BY <1>0, WriterFrame DEF pipeVars
<1>7. Accounted'
  BY <1>1, <1>2 DEF Accounted, pipeVars
<1>8. BufferInv'
  BY <1>0 DEF ReaderInv, BufferInv, pipeVars
<1>9. CallInv' /\ LineInv'
  BY <1>0, <1>4 DEF ReaderInv, CallInv, LineInv
<1>10. QED
  BY <1>2, <1>5, <1>6, <1>7, <1>8, <1>9 DEF IInv, WriterHalf

(* What the reader's call has done so far.                                 *)
LEMMA InCall ==
  ASSUME IInv, call.st # "returned"
  PROVE  /\ bufp \in 0 .. MaxLen /\ nleft \in 0 .. MaxLen /\ n \in 0 .. MaxLen + 1
         /\ call.n \in 0 .. MaxLen /\ call.st \in {"called", "line"}
         /\ got \in Nat /\ lost \in Nat /\ rio_cnt \in -1 .. RIO_BUFSIZE
         /\ put \in 0 .. Total /\ taken \in 0 .. put
         /\ usrbuf \in [0 .. MaxLen - 1 -> Bytes]
         /\ got + lost + bufp + Unread = taken
         /\ \A i \in 0 .. bufp - 1 : usrbuf[i] = got + lost + 1 + i
         /\ call.fn \in {"rio_readn", "rio_readnb"} => bufp + nleft = call.n
         /\ call.fn = "rio_readlineb" => n = bufp + 1 /\ n <= call.n
         /\ call.fn = "rio_readn" => Unread = 0
BY RioAssumption DEF IInv, TypeOK, CallInv, BufferInv, Unread

(* A failed call answers -1 and promises nothing.                          *)
LEMMA FailStep == ASSUME IInv, ReadnFails \/ RefillFails PROVE IInv'
<1>1. /\ call.st = "called" /\ Return(-1, bufp) /\ usrbuf' = usrbuf
      /\ UNCHANGED <<pipeVars, writerVars, buffered, rio_buf, rio_bufptr, nleft, n, bufp>>
      /\ rio_cnt' \in -1 .. RIO_BUFSIZE /\ Unread' = Unread
      /\ ~ buffered => rio_cnt' = rio_cnt
  <2>1. CASE ReadnFails
    BY <2>1, RioAssumption DEF IInv, TypeOK, ReadnFails, ReadnMore, In, rioVars, localVars, Unread
  <2>2. CASE RefillFails
    BY <2>2, RioAssumption
       DEF IInv, TypeOK, CallInv, RefillFails, Reading, Empty, In, localVars, Unread
  <2>3. QED
    BY <2>1, <2>2
<1>2. call'.ret = -1
  BY <1>1 DEF IInv, TypeOK, Return
<1>3. ShortMeansEOF' /\ LineAnswered'
  BY <1>2 DEF ShortMeansEOF, LineAnswered
<1>4. usrbuf' \in [0 .. MaxLen - 1 -> Bytes]
  BY <1>1 DEF IInv, TypeOK
<1>5. QED
  BY <1>1, <1>3, <1>4, ReturnStep

(* rio_readn and rio_readnb answer n, or less at the end of the stream.    *)
LEMMA ReadnReturnsStep == ASSUME IInv, ReadnReturns \/ ReadnbReturns PROVE IInv'
<1>1. /\ call.st = "called" /\ call.fn \in {"rio_readn", "rio_readnb"}
      /\ Return(call.n - nleft, bufp) /\ usrbuf' = usrbuf
      /\ UNCHANGED <<pipeVars, writerVars, buffered, rio_buf, rio_bufptr, nleft, n, bufp>>
      /\ rio_cnt' \in -1 .. RIO_BUFSIZE /\ Unread' = Unread
      /\ ~ buffered => rio_cnt' = rio_cnt
      /\ nleft = 0 \/ (EndOfFile /\ Unread = 0)
  <2>1. CASE ReadnReturns
    BY <2>1, RioAssumption
       DEF IInv, TypeOK, BufferInv, CallInv, ReadnReturns, In, rioVars, localVars, Unread
  <2>2. CASE ReadnbReturns
    <3>1. /\ call.st = "called" /\ call.fn = "rio_readnb" /\ buffered
          /\ rio_cnt \in -1 .. RIO_BUFSIZE
      BY <2>2 DEF IInv, TypeOK, CallInv, ReadnbReturns, In
    <3>2. \/ nleft = 0 /\ rio_cnt' = rio_cnt
          \/ rio_cnt <= 0 /\ EndOfFile /\ rio_cnt' = 0
      BY <2>2 DEF ReadnbReturns, Empty
    <3>3. /\ rio_cnt' \in -1 .. RIO_BUFSIZE /\ Unread' = Unread
          /\ nleft = 0 \/ (EndOfFile /\ Unread = 0)
      <4>1. CASE nleft = 0 /\ rio_cnt' = rio_cnt
        BY <3>1, <4>1 DEF Unread
      <4>2. CASE rio_cnt <= 0 /\ EndOfFile /\ rio_cnt' = 0
        <5>1. rio_cnt' \in -1 .. RIO_BUFSIZE
          BY <4>2, RioAssumption
        <5>2. Unread = 0 /\ Unread' = 0
          BY <3>1, <4>2 DEF Unread
        <5>3. QED
          BY <4>2, <5>1, <5>2
      <4>3. QED
        BY <3>2, <4>1, <4>2
    <3>4. /\ Return(call.n - nleft, bufp) /\ usrbuf' = usrbuf
          /\ UNCHANGED <<pipeVars, writerVars, buffered, rio_buf, rio_bufptr, nleft, n, bufp>>
      BY <2>2 DEF ReadnbReturns, localVars
    <3>5. QED
      BY <3>1, <3>3, <3>4
  <2>3. QED
    BY <2>1, <2>2
<1>2. call.n - nleft = bufp /\ bufp \in Nat /\ call.n \in Nat /\ nleft \in Nat
  BY <1>1, InCall
<1>3. call'.ret = bufp /\ call'.n = call.n /\ call'.fn = call.fn
  BY <1>1, <1>2 DEF IInv, TypeOK, Return
<1>4. ShortMeansEOF'
  <2>1. EndOfFile' <=> EndOfFile
    BY <1>1 DEF EndOfFile, pipeVars
  <2>2. QED
    BY <1>1, <1>2, <1>3, <2>1 DEF ShortMeansEOF
<1>5. LineAnswered'
  BY <1>1, <1>3 DEF LineAnswered
<1>6. usrbuf' \in [0 .. MaxLen - 1 -> Bytes]
  BY <1>1 DEF IInv, TypeOK
<1>7. QED
  BY <1>1, <1>2, <1>4, <1>5, <1>6, ReturnStep

(* rio_readlineb answers a line.                                           *)
LEMMA LineReturnsStep == ASSUME IInv, ReadlinebReturns \/ ReadlinebEOF PROVE IInv'
<1> USE RioAssumption
<1>1. /\ call.st # "returned" /\ call.fn = "rio_readlineb"
      /\ Return(n - 1, bufp)
      /\ UNCHANGED <<pipeVars, writerVars, buffered, rio_buf, rio_bufptr, nleft, n, bufp>>
      /\ rio_cnt' \in -1 .. RIO_BUFSIZE /\ Unread' = Unread
      /\ ~ buffered => rio_cnt' = rio_cnt
      /\ Terminate \/ (n = 1 /\ usrbuf' = usrbuf)
      /\ call.st = "line" \/ n = call.n \/ (EndOfFile /\ Unread = 0)
  <2>1. CASE ReadlinebReturns
    BY <2>1 DEF IInv, TypeOK, ReadlinebReturns, rioVars, Unread
  <2>2. CASE ReadlinebEOF
    BY <2>2 DEF IInv, TypeOK, CallInv, ReadlinebEOF, In, Empty, Unread
  <2>3. QED
    BY <2>1, <2>2
<1>2. /\ n - 1 = bufp /\ bufp \in 0 .. MaxLen - 1 /\ bufp < call.n /\ call.n \in 0 .. MaxLen
      /\ usrbuf \in [0 .. MaxLen - 1 -> Bytes]
  <2>1. /\ n = bufp + 1 /\ n <= call.n /\ bufp \in 0 .. MaxLen /\ call.n \in 0 .. MaxLen
        /\ usrbuf \in [0 .. MaxLen - 1 -> Bytes]
    BY <1>1, InCall
  <2>2. QED
    BY <2>1
<1>3. /\ usrbuf' \in [0 .. MaxLen - 1 -> Bytes]
      /\ \A i \in 0 .. bufp - 1 : usrbuf'[i] = usrbuf[i]
      /\ bufp > 0 => usrbuf'[bufp] = 0
  BY <1>1, <1>2 DEF Terminate, Bytes
<1>4. call'.ret = bufp /\ call'.n = call.n /\ call'.fn = call.fn
  BY <1>1, <1>2 DEF IInv, TypeOK, Return
<1>5. ShortMeansEOF'
  BY <1>1, <1>4 DEF ShortMeansEOF
<1>6. LineAnswered'
  <2>1. SUFFICES ASSUME bufp > 0
                 PROVE  /\ \A i \in 0 .. bufp - 2 : ~ IsNewline(usrbuf'[i])
                        /\ usrbuf'[bufp] = 0
                        /\ \/ IsNewline(usrbuf'[bufp - 1])
                           \/ bufp = call.n - 1
                           \/ EndOfFile' /\ Unread' = 0
    BY <1>4 DEF LineAnswered, IsNewline
  <2>2. /\ \A i \in 0 .. bufp - 2 : ~ IsNewline(usrbuf[i])
        /\ IsNewline(usrbuf[bufp - 1]) <=> call.st = "line"
    BY <1>1, <2>1 DEF IInv, LineInv
  <2>3. /\ \A i \in 0 .. bufp - 2 : ~ IsNewline(usrbuf'[i])
        /\ IsNewline(usrbuf'[bufp - 1]) <=> call.st = "line"
    BY <1>2, <1>3, <2>1, <2>2
  <2>4. EndOfFile' <=> EndOfFile
    BY <1>1 DEF EndOfFile, pipeVars
  <2>5. \/ IsNewline(usrbuf'[bufp - 1])
        \/ bufp = call.n - 1
        \/ EndOfFile' /\ Unread' = 0
    BY <1>1, <1>2, <2>3, <2>4
  <2>6. QED
    BY <1>3, <2>1, <2>3, <2>5
<1>7. QED
  BY <1>1, <1>2, <1>3, <1>5, <1>6, ReturnStep

(* rio_read refills the buffer with the next bytes of the stream.          *)
LEMMA RefillStep == ASSUME IInv, NEW k \in Nat, Refill(k) PROVE IInv'
<1> USE RioAssumption
<1>0. TypeOK /\ WriterHalf /\ ReaderInv /\ WroteAll
  BY Halves DEF IInv
<1>1. /\ call.st = "called" /\ rio_cnt <= 0 /\ Unread = 0 /\ buffered
      /\ k \in 1 .. RIO_BUFSIZE /\ k <= put - taken
      /\ rio_buf' = Moved(rio_buf, 0, k) /\ taken' = taken + k
      /\ rio_cnt' = k /\ rio_bufptr' = 0 /\ Unread' = k
      /\ UNCHANGED <<stream, put, closed, writerVars, buffered, call, localVars, auxVars>>
  BY <1>0 DEF Refill, Reading, Empty, In, Readable, Least, TypeOK, Unread, ReaderInv, CallInv
<1>2. /\ put \in 0 .. Total /\ taken \in 0 .. put
      /\ rio_buf \in [0 .. RIO_BUFSIZE - 1 -> Bytes]
  BY <1>0 DEF TypeOK
<1>3. /\ rio_buf' \in [0 .. RIO_BUFSIZE - 1 -> Bytes]
      /\ \A i \in 0 .. RIO_BUFSIZE - 1 : rio_buf'[i] =
           IF 0 <= i /\ i < 0 + k THEN taken + 1 + (i - 0) ELSE rio_buf[i]
  BY <1>0, <1>1, <1>2, MovedBytes
<1>4. taken' \in 0 .. put
  BY <1>1, <1>2
<1>5. TypeOK'
  BY <1>0, <1>1, <1>3, <1>4 DEF TypeOK, writerVars, localVars, auxVars
<1>6. WriterHalf'
  BY <1>0, <1>1, WriterFrame
<1>7. InOrder' /\ AnswerInv'
  BY <1>0, <1>1 DEF ReaderInv, InOrder, AnswerInv, auxVars
<1>8. Accounted' /\ ShortMeansEOF' /\ LineAnswered'
  BY <1>1 DEF Accounted, ShortMeansEOF, LineAnswered
<1>9. LineInv'
  BY <1>0, <1>1 DEF ReaderInv, LineInv, localVars, IsNewline
<1>10. BufferInv'
  <2>1. rio_bufptr' + Unread' <= RIO_BUFSIZE
    BY <1>1
  <2>2. \A i \in 0 .. Unread' - 1 : rio_buf'[rio_bufptr' + i] = taken' - Unread' + 1 + i
    BY <1>1, <1>2, <1>3
  <2>3. QED
    BY <1>1, <2>1, <2>2 DEF BufferInv
<1>11. CallInv'
  BY <1>0, <1>1, <1>2, InCall DEF ReaderInv, CallInv, localVars, auxVars, IInv
<1>12. QED
  BY <1>5, <1>6, <1>7, <1>8, <1>9, <1>10, <1>11 DEF IInv, WriterHalf

(* An interrupted read leaves an empty buffer empty.                       *)
LEMMA RefillInterruptedStep == ASSUME IInv, RefillInterrupted PROVE IInv'
<1> USE RioAssumption
<1>0. TypeOK /\ WriterHalf /\ ReaderInv
  BY Halves
<1>1. /\ call.st = "called" /\ Unread = 0 /\ Unread' = 0 /\ buffered /\ rio_cnt' = -1
      /\ UNCHANGED <<pipeVars, writerVars, buffered, rio_buf, rio_bufptr, call, localVars, auxVars>>
  BY <1>0 DEF RefillInterrupted, Reading, Empty, In, TypeOK, Unread, ReaderInv, CallInv
<1>2. TypeOK'
  BY <1>0, <1>1 DEF TypeOK, pipeVars, writerVars, localVars, auxVars
<1>3. WriterHalf'
  BY <1>0, <1>1, WriterFrame DEF pipeVars
<1>4. InOrder' /\ AnswerInv' /\ LineInv' /\ BufferInv'
  BY <1>0, <1>1 DEF ReaderInv, InOrder, AnswerInv, LineInv, BufferInv, IsNewline,
                    pipeVars, localVars, auxVars
<1>5. Accounted' /\ ShortMeansEOF' /\ LineAnswered'
  BY <1>1 DEF Accounted, ShortMeansEOF, LineAnswered
<1>6. CallInv'
  BY <1>0, <1>1 DEF ReaderInv, CallInv, pipeVars, localVars, auxVars
<1>7. QED
  BY <1>2, <1>3, <1>4, <1>5, <1>6 DEF IInv, WriterHalf

(* What Take moves: the next cnt bytes, and the buffer still ends with the *)
(* last byte read.                                                         *)
LEMMA TakeKeeps ==
  ASSUME IInv, call.st = "called", NEW cnt \in Nat, cnt > 0, cnt <= rio_cnt,
         bufp + cnt <= MaxLen, Take(cnt), UNCHANGED <<rio_buf, buffered, taken, got, lost>>,
         buffered
  PROVE  /\ rio_bufptr' \in 0 .. RIO_BUFSIZE /\ rio_cnt' \in -1 .. RIO_BUFSIZE
         /\ bufp' = bufp + cnt /\ bufp' \in 0 .. MaxLen
         /\ usrbuf' \in [0 .. MaxLen - 1 -> Bytes]
         /\ got + lost + bufp' + Unread' = taken
         /\ \A i \in 0 .. bufp' - 1 : usrbuf'[i] = got + lost + 1 + i
         /\ \A i \in 0 .. bufp - 1 : usrbuf'[i] = usrbuf[i]
         /\ usrbuf'[bufp] = rio_buf[rio_bufptr]
         /\ BufferInv'
<1> USE RioAssumption
<1>1. /\ bufp \in 0 .. MaxLen /\ got \in Nat /\ lost \in Nat /\ rio_cnt \in 1 .. RIO_BUFSIZE
      /\ taken \in 0 .. Total /\ rio_bufptr \in 0 .. RIO_BUFSIZE /\ Unread = rio_cnt
      /\ usrbuf \in [0 .. MaxLen - 1 -> Bytes]
      /\ rio_buf \in [0 .. RIO_BUFSIZE - 1 -> Bytes]
      /\ got + lost + bufp + rio_cnt = taken
      /\ \A i \in 0 .. bufp - 1 : usrbuf[i] = got + lost + 1 + i
      /\ rio_bufptr + rio_cnt <= RIO_BUFSIZE
      /\ \A i \in 0 .. rio_cnt - 1 : rio_buf[rio_bufptr + i] = taken - rio_cnt + 1 + i
  <2>1. /\ bufp \in 0 .. MaxLen /\ got \in Nat /\ lost \in Nat /\ rio_cnt \in 1 .. RIO_BUFSIZE
        /\ taken \in 0 .. Total /\ rio_bufptr \in 0 .. RIO_BUFSIZE
        /\ usrbuf \in [0 .. MaxLen - 1 -> Bytes]
        /\ rio_buf \in [0 .. RIO_BUFSIZE - 1 -> Bytes]
    BY DEF IInv, TypeOK
  <2>2. Unread = rio_cnt
    BY <2>1 DEF Unread
  <2>3. QED
    BY <2>1, <2>2 DEF IInv, CallInv, BufferInv
<1>2. /\ rio_bufptr' = rio_bufptr + cnt /\ rio_cnt' = rio_cnt - cnt /\ bufp' = bufp + cnt
      /\ usrbuf' = [i \in DOMAIN usrbuf |->
            IF bufp <= i /\ i < bufp + cnt THEN rio_buf[rio_bufptr + (i - bufp)] ELSE usrbuf[i]]
  BY DEF Take
<1>3. /\ rio_bufptr' \in 0 .. RIO_BUFSIZE /\ rio_cnt' \in -1 .. RIO_BUFSIZE
      /\ bufp' \in 0 .. MaxLen /\ Unread' = rio_cnt - cnt
      /\ got + lost + bufp' + Unread' = taken
  BY <1>1, <1>2 DEF Unread
<1>4. \A i \in 0 .. bufp - 1 : usrbuf'[i] = usrbuf[i]
  BY <1>1, <1>2
<1>5. \A i \in bufp .. bufp' - 1 : /\ usrbuf'[i] = rio_buf[rio_bufptr + (i - bufp)]
                                 /\ usrbuf'[i] = got + lost + 1 + i
  <2>1. SUFFICES ASSUME NEW i \in bufp .. bufp' - 1
                 PROVE  /\ usrbuf'[i] = rio_buf[rio_bufptr + (i - bufp)]
                        /\ usrbuf'[i] = got + lost + 1 + i
    OBVIOUS
  <2>2. i \in DOMAIN usrbuf /\ bufp <= i /\ i < bufp + cnt /\ i - bufp \in 0 .. rio_cnt - 1
    BY <1>1, <1>2
  <2>3. usrbuf'[i] = rio_buf[rio_bufptr + (i - bufp)]
    BY <1>2, <2>2
  <2>4. rio_buf[rio_bufptr + (i - bufp)] = taken - rio_cnt + 1 + (i - bufp)
    BY <1>1, <2>2
  <2>5. QED
    BY <1>1, <2>2, <2>3, <2>4
<1>6. \A i \in 0 .. bufp' - 1 : usrbuf'[i] = got + lost + 1 + i
  <2>1. SUFFICES ASSUME NEW i \in 0 .. bufp' - 1 PROVE usrbuf'[i] = got + lost + 1 + i
    OBVIOUS
  <2>2. CASE i < bufp
    <3>1. i \in 0 .. bufp - 1
      BY <1>1, <2>2
    <3>2. QED
      BY <1>1, <1>4, <3>1
  <2>3. CASE ~ (i < bufp)
    <3>1. i \in bufp .. bufp' - 1
      BY <1>1, <1>2, <2>3
    <3>2. QED
      BY <1>5, <3>1
  <2>4. QED
    BY <2>2, <2>3
<1>7. usrbuf'[bufp] = rio_buf[rio_bufptr]
  <2>1. bufp \in bufp .. bufp' - 1 /\ rio_bufptr + (bufp - bufp) = rio_bufptr
    BY <1>1, <1>2
  <2>2. QED
    BY <1>5, <2>1
<1>8. usrbuf' \in [0 .. MaxLen - 1 -> Bytes]
  <2>1. \A i \in 0 .. MaxLen - 1 : usrbuf'[i] \in Bytes
    <3>1. SUFFICES ASSUME NEW i \in 0 .. MaxLen - 1 PROVE usrbuf'[i] \in Bytes
      OBVIOUS
    <3>2. CASE bufp <= i /\ i < bufp + cnt
      <4>1. usrbuf'[i] = rio_buf[rio_bufptr + (i - bufp)]
        BY <1>1, <1>2, <3>2
      <4>2. rio_bufptr + (i - bufp) \in 0 .. RIO_BUFSIZE - 1
        BY <1>1, <3>2
      <4>3. QED
        BY <1>1, <4>1, <4>2
    <3>3. CASE ~ (bufp <= i /\ i < bufp + cnt)
      BY <1>1, <1>2, <3>3
    <3>4. QED
      BY <3>2, <3>3
  <2>2. QED
    BY <1>1, <1>2, <2>1
<1>9. BufferInv'
  <2>1. rio_bufptr' + Unread' <= RIO_BUFSIZE
    BY <1>1, <1>2, <1>3
  <2>2. \A i \in 0 .. Unread' - 1 : rio_buf'[rio_bufptr' + i] = taken' - Unread' + 1 + i
    <3>1. SUFFICES ASSUME NEW i \in 0 .. Unread' - 1
                   PROVE  rio_buf[rio_bufptr + cnt + i] = taken - (rio_cnt - cnt) + 1 + i
      BY <1>2, <1>3
    <3>2. cnt + i \in 0 .. rio_cnt - 1 /\ rio_bufptr + (cnt + i) = rio_bufptr + cnt + i
      BY <1>1, <1>3
    <3>3. rio_buf[rio_bufptr + (cnt + i)] = taken - rio_cnt + 1 + (cnt + i)
      BY <1>1, <3>2
    <3>4. QED
      BY <1>1, <3>2, <3>3
  <2>3. QED
    BY <2>1, <2>2 DEF BufferInv
<1>10. QED
  BY <1>2, <1>3, <1>4, <1>6, <1>7, <1>8, <1>9

(* rio_readnb moves what the buffer holds, or what it still wants.         *)
LEMMA ReadnbTakeStep == ASSUME IInv, ReadnbTake PROVE IInv'
<1> USE RioAssumption
<1>0. TypeOK /\ WriterHalf /\ ReaderInv
  BY Halves
<1> DEFINE cnt == Least(nleft, rio_cnt)
<1>1. /\ call.st = "called" /\ call.fn = "rio_readnb" /\ nleft > 0 /\ buffered
      /\ Take(cnt) /\ nleft' = nleft - cnt
      /\ UNCHANGED <<pipeVars, writerVars, buffered, rio_buf, call, n, auxVars>>
  BY <1>0 DEF ReadnbTake, In, ReaderInv, CallInv
<1>2. /\ cnt \in Nat /\ cnt > 0 /\ cnt <= rio_cnt /\ cnt <= nleft
      /\ bufp + nleft = call.n /\ call.n \in 0 .. MaxLen /\ bufp \in 0 .. MaxLen
      /\ nleft \in 0 .. MaxLen
  <2>1. call.st # "returned" /\ call.fn = "rio_readnb" /\ nleft > 0 /\ ~ Empty
    BY <1>1 DEF ReadnbTake
  <2>2. /\ bufp \in 0 .. MaxLen /\ nleft \in 0 .. MaxLen /\ call.n \in 0 .. MaxLen
        /\ rio_cnt \in -1 .. RIO_BUFSIZE /\ bufp + nleft = call.n
    BY <2>1, InCall
  <2>3. rio_cnt > 0
    BY <2>1, <2>2 DEF Empty
  <2>4. cnt \in Nat /\ cnt > 0 /\ cnt <= rio_cnt /\ cnt <= nleft
    BY <2>1, <2>2, <2>3 DEF Least
  <2>5. QED
    BY <2>2, <2>4
<1> HIDE DEF cnt
<1>3. bufp + cnt <= MaxLen /\ UNCHANGED <<rio_buf, buffered, taken, got, lost>>
  BY <1>1, <1>2 DEF pipeVars, auxVars
<1>4. /\ rio_bufptr' \in 0 .. RIO_BUFSIZE /\ rio_cnt' \in -1 .. RIO_BUFSIZE
      /\ bufp' = bufp + cnt /\ bufp' \in 0 .. MaxLen
      /\ usrbuf' \in [0 .. MaxLen - 1 -> Bytes]
      /\ got + lost + bufp' + Unread' = taken
      /\ \A i \in 0 .. bufp' - 1 : usrbuf'[i] = got + lost + 1 + i
      /\ BufferInv'
  BY <1>1, <1>2, <1>3, TakeKeeps
<1>5. nleft' \in 0 .. MaxLen /\ bufp' + nleft' = call.n
  BY <1>1, <1>2, <1>4
<1>6. TypeOK'
  BY <1>0, <1>1, <1>4, <1>5 DEF TypeOK, pipeVars, writerVars, auxVars
<1>7. WriterHalf'
  BY <1>0, <1>1, WriterFrame DEF pipeVars
<1>8. InOrder' /\ AnswerInv'
  BY <1>0, <1>1 DEF ReaderInv, InOrder, AnswerInv, auxVars
<1>9. Accounted' /\ ShortMeansEOF' /\ LineAnswered' /\ LineInv'
  BY <1>1 DEF Accounted, ShortMeansEOF, LineAnswered, LineInv
<1>10. CallInv'
  BY <1>1, <1>3, <1>4, <1>5 DEF CallInv
<1>11. QED
  BY <1>4, <1>6, <1>7, <1>8, <1>9, <1>10 DEF IInv, WriterHalf

(* rio_readlineb moves one byte and stops behind a newline.                *)
LEMMA ReadlinebTakeStep == ASSUME IInv, ReadlinebTake PROVE IInv'
<1> USE RioAssumption
<1>0. TypeOK /\ WriterHalf /\ ReaderInv
  BY Halves
<1>1. /\ call.st = "called" /\ call.fn = "rio_readlineb" /\ n < call.n /\ buffered
      /\ rio_cnt > 0 /\ Take(1) /\ n' = n + 1
      /\ call' = [call EXCEPT !.st = IF IsNewline(rio_buf[rio_bufptr]) THEN "line" ELSE @]
      /\ UNCHANGED <<pipeVars, writerVars, buffered, rio_buf, nleft, auxVars>>
  <2>1. In("rio_readlineb") /\ n < call.n /\ ~ Empty /\ Take(1) /\ n' = n + 1
    BY DEF ReadlinebTake
  <2>2. /\ call' = [call EXCEPT !.st = IF IsNewline(rio_buf[rio_bufptr]) THEN "line" ELSE @]
        /\ UNCHANGED <<pipeVars, writerVars, buffered, rio_buf, nleft, auxVars>>
    BY DEF ReadlinebTake
  <2>3. call.st = "called" /\ call.fn = "rio_readlineb"
    BY <2>1 DEF In
  <2>4. buffered /\ rio_cnt > 0
    BY <1>0, <2>1, <2>3 DEF ReaderInv, CallInv, Empty, TypeOK
  <2>5. QED
    BY <2>1, <2>2, <2>3, <2>4
<1>2. /\ n = bufp + 1 /\ call.n \in 0 .. MaxLen /\ bufp \in 0 .. MaxLen
      /\ rio_cnt \in -1 .. RIO_BUFSIZE
  <2>1. call.st # "returned"
    BY <1>1
  <2>2. QED
    BY <1>1, <2>1, InCall
<1>3. /\ 1 \in Nat /\ 1 > 0 /\ 1 <= rio_cnt /\ bufp + 1 <= MaxLen
      /\ UNCHANGED <<rio_buf, buffered, taken, got, lost>>
  BY <1>1, <1>2 DEF pipeVars, auxVars
<1>4. /\ rio_bufptr' \in 0 .. RIO_BUFSIZE /\ rio_cnt' \in -1 .. RIO_BUFSIZE
      /\ bufp' = bufp + 1 /\ bufp' \in 0 .. MaxLen
      /\ usrbuf' \in [0 .. MaxLen - 1 -> Bytes]
      /\ got + lost + bufp' + Unread' = taken
      /\ \A i \in 0 .. bufp' - 1 : usrbuf'[i] = got + lost + 1 + i
      /\ \A i \in 0 .. bufp - 1 : usrbuf'[i] = usrbuf[i]
      /\ usrbuf'[bufp] = rio_buf[rio_bufptr]
      /\ BufferInv'
  BY <1>1, <1>3, TakeKeeps
<1>5. /\ call'.fn = "rio_readlineb" /\ call'.n = call.n
      /\ call'.st = IF IsNewline(rio_buf[rio_bufptr]) THEN "line" ELSE "called"
      /\ call' \in [fn : {"none", "rio_readn", "rio_readnb", "rio_readlineb"},
                    st : {"called", "line", "returned"}, n : 0 .. MaxLen, ret : -1 .. MaxLen]
  BY <1>0, <1>1 DEF TypeOK
<1>6. n' \in 0 .. MaxLen + 1 /\ n' = bufp' + 1 /\ n' <= call.n
  BY <1>1, <1>2, <1>4
<1>7. TypeOK'
  BY <1>0, <1>1, <1>4, <1>5, <1>6 DEF TypeOK, pipeVars, writerVars, auxVars
<1>8. WriterHalf'
  BY <1>0, <1>1, WriterFrame DEF pipeVars
<1>9. InOrder' /\ AnswerInv'
  BY <1>0, <1>1 DEF ReaderInv, InOrder, AnswerInv, auxVars
<1>10. Accounted' /\ ShortMeansEOF' /\ LineAnswered'
  BY <1>5 DEF Accounted, ShortMeansEOF, LineAnswered
<1>11. CallInv'
  <2>1. buffered' /\ got' = got /\ lost' = lost /\ taken' = taken
    BY <1>1, <1>3
  <2>2. bufp' > 0
    BY <1>2, <1>4
  <2>3. QED
    BY <1>4, <1>5, <1>6, <2>1, <2>2 DEF CallInv
<1>12. LineInv'
  <2>1. /\ \A i \in 0 .. bufp - 2 : ~ IsNewline(usrbuf[i])
        /\ bufp > 0 => ~ IsNewline(usrbuf[bufp - 1])
    BY <1>0, <1>1 DEF ReaderInv, LineInv
  <2>2. \A i \in 0 .. bufp - 1 : ~ IsNewline(usrbuf[i])
    BY <1>2, <2>1
  <2>3. \A i \in 0 .. bufp' - 2 : ~ IsNewline(usrbuf'[i])
    BY <1>2, <1>4, <2>2
  <2>4. IsNewline(usrbuf'[bufp' - 1]) <=> call'.st = "line"
    <3>1. bufp' - 1 = bufp
      BY <1>2, <1>4
    <3>2. QED
      BY <1>4, <1>5, <3>1
  <2>5. QED
    BY <2>3, <2>4 DEF LineInv, IsNewline
<1>13. QED
  BY <1>4, <1>7, <1>8, <1>9, <1>10, <1>11, <1>12 DEF IInv, WriterHalf

(* A request is a call that fits the buffer it is given.                   *)
LEMMA RequestStep == ASSUME IInv, Request PROVE IInv'
BY CallStep, RioAssumption DEF Request, rio_readn, rio_readnb, rio_readlineb

(* A step that changes nothing keeps IInv.                                 *)
LEMMA Stutter == ASSUME IInv, UNCHANGED vars PROVE IInv'
<1> USE DEF vars, pipeVars, writerVars, readerVars, rioVars, localVars, auxVars
<1>0. TypeOK /\ WriterHalf /\ ReaderInv
  BY Halves
<1>1. TypeOK'
  BY <1>0 DEF TypeOK
<1>2. WriterHalf'
  BY <1>0, WriterFrame
<1>3. ReaderInv'
  BY <1>0, ReaderFrame DEF EndOfFile
<1>4. QED
  BY <1>1, <1>2, <1>3 DEF IInv, WriterHalf, ReaderInv

(* Every step of the writer, of the reader and of the faults keeps IInv.   *)
LEMMA StepInvariance == ASSUME IInv, [Next]_vars PROVE IInv'
<1>1. ASSUME Progress PROVE IInv'
  <2>1. PIPE_BUF \in Nat
    BY RioAssumption
  <2>2. QED
    BY <1>1, <2>1, ReadnSomeStep, RefillStep, ReadnReturnsStep, ReadnbTakeStep,
       ReadlinebTakeStep, LineReturnsStep DEF Progress
<1>2. ASSUME Fault PROVE IInv'
  BY <1>2, FailStep, RefillInterruptedStep DEF Fault
<1>3. QED
  BY <1>1, <1>2, WriterStep, RequestStep, Stutter DEF Next

(* IInv holds in every reachable state: of the bytes written, of those in  *)
(* the pipe and in the rio_t, of the call in progress and of all answers.  *)
THEOREM Invariance == Spec => []IInv
<1>1. IInv /\ [Next]_vars => IInv'
  BY StepInvariance
<1>2. QED
  BY <1>1, InitIInv, PTL DEF Spec

(* The types of all variables.                                             *)
THEOREM TypeCorrect == Spec => []TypeOK
<1>1. IInv => TypeOK
  BY DEF IInv
<1>2. QED
  BY <1>1, Invariance, PTL

(* rio_writen: what the kernel has taken is the writer's stream, and all   *)
(* of it when the call answers n.                                          *)
THEOREM WritesAll == Spec => []WroteAll
<1>1. IInv => WroteAll
  BY DEF IInv
<1>2. QED
  BY <1>1, Invariance, PTL

(* The reading functions: no byte is repeated or reordered, and none is    *)
(* missing unless a call failed half way.                                  *)
THEOREM ReadsInOrder == Spec => []InOrder
<1>1. IInv => InOrder
  BY DEF IInv
<1>2. QED
  BY <1>1, Invariance, PTL

(* Every byte read from the pipe is accounted for between two calls.       *)
THEOREM ReadsAccounted == Spec => []Accounted
<1>1. IInv => Accounted
  BY DEF IInv
<1>2. QED
  BY <1>1, Invariance, PTL

(* rio_readn and rio_readnb answer less than n at the end of file only.    *)
THEOREM ShortReads == Spec => []ShortMeansEOF
<1>1. IInv => ShortMeansEOF
  BY DEF IInv
<1>2. QED
  BY <1>1, Invariance, PTL

(* rio_readlineb answers one line.                                         *)
THEOREM Lines == Spec => []LineAnswered
<1>1. IInv => LineAnswered
  BY DEF IInv
<1>2. QED
  BY <1>1, Invariance, PTL

(***************************************************************************)
(* The same invariant, of a program that may do other things with csapp.c. *)
(***************************************************************************)
(* Of the stream, the pipe and the rio_t when open_clientfd and fork are   *)
(* there too: they touch none of them.                                     *)
THEOREM StreamInvariance == CsappSpec => []IInv
<1>1. CsappInit => Init
  BY DEF CsappInit
<1>2. [CsappNext]_allVars => [Next]_vars
  BY DEF CsappNext, RioStep, OpenStep, ProcessStep, allVars
<1>3. Init /\ [][Next]_vars => []IInv
  <2>1. IInv /\ [Next]_vars => IInv'
    BY StepInvariance
  <2> QED BY <2>1, InitIInv, PTL
<1> QED BY <1>1, <1>2, <1>3, PTL DEF CsappSpec

(***************************************************************************)
(* open_clientfd and open_listenfd.                                        *)
(***************************************************************************)
Errnos == {"unset", "socket", "attempt", "listen", "close"}
PCs == {"getaddrinfo", "socket", "attempt", "close", "freeaddrinfo", "listen",
        "unlisten", "returned"}
Truth == BOOLEAN
Locals == [pc : PCs, wrapped : Truth, addrs : Nat, p : Nat,
           listp : {"none", "held", "freed"}, fd : Nat, errno : Errnos, ret : Int]

OpenTypeOK ==
  /\ owner \in [Fds -> Open!Threads \union {"free"}]
  /\ th \in [Open!Threads -> Locals]
  /\ exited \in BOOLEAN

(* What a thread with the locals l owns and has freed at each place of the *)
(* two functions: S is the set of its descriptors.  An address given up    *)
(* has set errno, so errno is set when the last one is.                    *)
Place(l, S) ==
  /\ l.pc = "getaddrinfo" => S = {} /\ l.listp = "none"
  /\ l.pc = "socket" =>
       /\ S = {} /\ l.listp = "held"
       /\ l.p <= l.addrs + 1 /\ l.addrs >= 1
  /\ l.pc \in {"attempt", "close", "freeaddrinfo"} =>
       S = {l.fd} /\ l.listp = "held" /\ l.p <= l.addrs /\ l.addrs >= 1
  /\ l.pc \in {"listen", "unlisten"} => S = {l.fd} /\ l.listp = "freed"
  /\ l.pc \in {"close", "unlisten"} => l.errno # "unset"
  /\ l.pc = "socket" /\ l.p > 1 => l.errno # "unset"
  /\ l.pc = "returned" =>
       /\ l.ret >= 0 => S = {l.ret}
       /\ l.ret < 0 /\ l.errno # "close" => S = {}
       /\ l.ret = -1 => l.errno # "unset"
       /\ l.ret = -2 => l.listp = "none"
       /\ l.listp = "held" => l.errno = "close" /\ l.ret = -1

OpenInv == OpenTypeOK /\ (~ exited => \A t \in Open!Threads : Place(th[t], Open!Owned(t)))

-----------------------------------------------------------------------------
(* What the assignments to the locals change, and what they leave.         *)
LEMMA ErrnoSet ==
  ASSUME NEW l \in Locals, NEW e \in Errnos, NEW m, m = [l EXCEPT !.errno = e]
  PROVE  /\ m \in Locals /\ m.errno = e
         /\ m.pc = l.pc /\ m.addrs = l.addrs /\ m.p = l.p /\ m.listp = l.listp
         /\ m.fd = l.fd /\ m.ret = l.ret
BY DEF Locals

LEMMA GoTo ==
  ASSUME NEW l \in Locals, NEW where \in PCs, NEW m, m = [l EXCEPT !.pc = where]
  PROVE  /\ m \in Locals /\ m.pc = where
         /\ m.addrs = l.addrs /\ m.p = l.p /\ m.listp = l.listp
         /\ m.fd = l.fd /\ m.errno = l.errno /\ m.ret = l.ret
BY DEF Locals

LEMMA ListFreed ==
  ASSUME NEW l \in Locals, NEW m, m = [l EXCEPT !.listp = "freed"]
  PROVE  /\ m \in Locals /\ m.listp = "freed"
         /\ m.pc = l.pc /\ m.addrs = l.addrs /\ m.p = l.p
         /\ m.fd = l.fd /\ m.errno = l.errno /\ m.ret = l.ret
BY DEF Locals

LEMMA FdSet ==
  ASSUME NEW l \in Locals, NEW fd \in Nat, NEW m, m = [l EXCEPT !.fd = fd]
  PROVE  /\ m \in Locals /\ m.fd = fd
         /\ m.pc = l.pc /\ m.addrs = l.addrs /\ m.p = l.p /\ m.listp = l.listp
         /\ m.errno = l.errno /\ m.ret = l.ret
BY DEF Locals

LEMMA Advanced ==
  ASSUME NEW l \in Locals, NEW m, m = Open!NextAddress(l)
  PROVE  /\ m \in Locals /\ m.pc = "socket" /\ m.p = l.p + 1
         /\ m.addrs = l.addrs /\ m.listp = l.listp
         /\ m.fd = l.fd /\ m.errno = l.errno /\ m.ret = l.ret
<1>1. "socket" \in PCs /\ l.p + 1 \in Nat
  BY DEF PCs, Locals
<1>2. m = [l EXCEPT !.p = l.p + 1, !.pc = "socket"]
  BY DEF Open!NextAddress
<1> QED BY <1>1, <1>2 DEF Locals

LEMMA Answered ==
  ASSUME NEW l \in Locals, NEW r \in Int, NEW m, m = Open!Returning(l, r)
  PROVE  /\ m \in Locals /\ m.pc = "returned" /\ m.ret = r
         /\ m.addrs = l.addrs /\ m.p = l.p /\ m.listp = l.listp
         /\ m.fd = l.fd /\ m.errno = l.errno
<1>1. "returned" \in PCs
  BY DEF PCs
<1> QED BY <1>1 DEF Locals, Open!Returning

-----------------------------------------------------------------------------
(* A non-empty set of descriptors has a lowest one.                        *)
LEMMA LeastOfNaturals ==
  ASSUME NEW S \in SUBSET Nat, S # {}
  PROVE  \E x \in S : \A y \in S : x <= y
<1> DEFINE Below == {0 .. x : x \in S}
<1>1. Below \subseteq FiniteSubsetsOf(Nat) /\ Below # {}
  <2>1. ASSUME NEW x \in S PROVE 0 .. x \in FiniteSubsetsOf(Nat)
    <3>1. IsFiniteSet(0 .. x) /\ 0 .. x \in SUBSET Nat
      BY FS_Interval
    <3> QED BY <3>1 DEF FiniteSubsetsOf
  <2>. QED  BY <2>1
<1>2. PICK b \in Below : \A c \in Below : <<c, b>> \notin StrictSubsetOrdering(Nat)
  <2> HIDE DEF Below
  <2> QED BY <1>1, FS_StrictSubsetOrderingWellFounded, WFMin
<1>3. PICK x \in S : b = 0 .. x
  OBVIOUS
<1>4. ASSUME NEW y \in S, y < x PROVE FALSE
  <2>1. 0 .. y \in Below /\ 0 .. y \subseteq 0 .. x /\ 0 .. y # 0 .. x
    BY <1>4
  <2>2. <<0 .. y, 0 .. x>> \in StrictSubsetOrdering(Nat)
    BY <2>1 DEF StrictSubsetOrdering
  <2> QED BY <1>2, <1>3, <2>1, <2>2
<1> QED BY <1>4

LEMMA LowestFree ==
  ASSUME Fds \subseteq Nat, NEW fd \in Fds, owner[fd] = "free"
  PROVE  Open!Lowest \in Fds /\ owner[Open!Lowest] = "free"
<1>1. \E e \in Fds : owner[e] = "free" /\ \A f \in Fds : owner[f] = "free" => e <= f
  <2>1. PICK e \in {f \in Fds : owner[f] = "free"} :
          \A f \in {g \in Fds : owner[g] = "free"} : e <= f
    BY LeastOfNaturals
  <2> QED BY <2>1
<1> QED BY <1>1 DEF Open!Lowest

-----------------------------------------------------------------------------
(* A step of one thread: what the other one owns is not touched.           *)
LEMMA ThreadStep ==
  ASSUME OpenInv, ~ exited, exited' = exited, NEW t \in Open!Threads, NEW l \in Locals,
         Open!Set(t, l),
         owner' \in [Fds -> Open!Threads \union {"free"}],
         \A fd \in Fds : owner'[fd] = owner[fd] \/ {owner'[fd], owner[fd]} \subseteq {t, "free"},
         NEW S, S = {fd \in Fds : owner'[fd] = t}, Place(l, S)
  PROVE  OpenInv'
<1>1. th' = [th EXCEPT ![t] = l] /\ th \in [Open!Threads -> Locals]
  BY DEF Open!Set, OpenInv, OpenTypeOK
<1>2. OpenTypeOK'
  BY <1>1 DEF OpenInv, OpenTypeOK
<1>3. ASSUME NEW u \in Open!Threads, u # t PROVE Open!Owned(u)' = Open!Owned(u) /\ th'[u] = th[u]
  <2>1. u # "free"
    BY DEF Open!Threads
  <2> QED BY <1>1, <1>3, <2>1 DEF Open!Owned
<1>4. th'[t] = l /\ Open!Owned(t)' = S
  BY <1>1 DEF Open!Owned
<1>5. ASSUME NEW u \in Open!Threads PROVE Place(th[u], Open!Owned(u))'
  <2>1. CASE u = t
    BY <1>4, <2>1 DEF Place
  <2>2. CASE u # t
    BY <1>3, <2>2 DEF OpenInv, Place
  <2> QED BY <2>1, <2>2
<1> QED BY <1>2, <1>5 DEF OpenInv

(* Where nothing is opened or closed.                                      *)
LEMMA LocalStep ==
  ASSUME OpenInv, ~ exited, exited' = exited, NEW t \in Open!Threads, NEW l \in Locals,
         Open!Set(t, l),
         UNCHANGED owner, Place(l, Open!Owned(t))
  PROVE  OpenInv'
BY ThreadStep DEF OpenInv, OpenTypeOK, Open!Owned

(* close has given the descriptor back.                                    *)
LEMMA CloseStep ==
  ASSUME OpenInv, ~ exited, exited' = exited, NEW t \in Open!Threads, NEW l \in Locals,
         Open!Set(t, l),
         Open!Owned(t) = {th[t].fd}, owner' = [owner EXCEPT ![th[t].fd] = "free"], Place(l, {})
  PROVE  OpenInv'
<1>1. owner \in [Fds -> Open!Threads \union {"free"}] /\ t # "free"
  BY DEF OpenInv, OpenTypeOK, Open!Threads
<1>2. th[t].fd \in Fds /\ owner[th[t].fd] = t /\ \A fd \in Fds : owner[fd] = t => fd = th[t].fd
  BY DEF Open!Owned
<1>3. {fd \in Fds : owner'[fd] = t} = {}
  BY <1>1, <1>2
<1> QED BY <1>1, <1>2, <1>3, ThreadStep

LEMMA GetaddrinfoStep ==
  ASSUME OpenInv, NEW t \in Open!Threads, Open!getaddrinfo(t), MaxAddrs \in Nat
  PROVE  OpenInv'
<1>1. /\ ~ exited /\ exited' = exited /\ UNCHANGED owner /\ th[t] \in Locals
      /\ th[t].pc = "getaddrinfo" /\ Place(th[t], Open!Owned(t))
  BY DEF Open!getaddrinfo, Open!At, OpenInv, OpenTypeOK
<1>2. ASSUME NEW m, m = Open!Returning(th[t], -2), Open!Set(t, m)
      PROVE  OpenInv'
  <2>1. m \in Locals /\ m.pc = "returned" /\ m.ret = -2 /\ m.listp = th[t].listp
    BY <1>1, <1>2, Answered
  <2>2. Place(m, Open!Owned(t))
    BY <1>1, <2>1 DEF Place
  <2> QED BY <1>1, <1>2, <2>1, <2>2, LocalStep
<1>3. ASSUME NEW k \in 1 .. MaxAddrs, NEW m, Open!Set(t, m),
             m = [th[t] EXCEPT !.addrs = k, !.p = 1, !.listp = "held", !.pc = "socket"]
      PROVE  OpenInv'
  <2>1. m \in Locals /\ m.pc = "socket" /\ m.addrs = k /\ m.p = 1 /\ m.listp = "held"
    <3>1. PICK l \in Locals : l = th[t]
      BY <1>1
    <3>2. k \in Nat /\ m = [l EXCEPT !.addrs = k, !.p = 1, !.listp = "held", !.pc = "socket"]
      BY <1>3, <3>1
    <3>3. "socket" \in PCs
      BY DEF PCs
    <3> QED BY <3>2, <3>3 DEF Locals
  <2>2. Place(m, Open!Owned(t))
    BY <1>1, <2>1 DEF Place
  <2> QED BY <1>1, <1>3, <2>1, <2>2, LocalStep
<1> QED BY <1>2, <1>3 DEF Open!getaddrinfo

LEMMA SocketStep ==
  ASSUME OpenInv, NEW t \in Open!Threads, Open!socket(t), Fds \subseteq Nat
  PROVE  OpenInv'
<1>1. /\ ~ exited /\ exited' = exited /\ th[t] \in Locals
      /\ th[t].pc = "socket" /\ th[t].p <= th[t].addrs /\ Place(th[t], Open!Owned(t))
      /\ owner \in [Fds -> Open!Threads \union {"free"}] /\ t # "free"
      /\ th[t].addrs \in Nat /\ th[t].p \in Nat
  BY DEF Open!socket, Open!At, OpenInv, OpenTypeOK, Open!Threads, Locals
<1>2. ASSUME NEW e, e = [th[t] EXCEPT !.errno = "socket"], NEW m, m = Open!NextAddress(e),
             Open!Set(t, m), UNCHANGED owner
      PROVE  OpenInv'
  <2>1. /\ e \in Locals /\ e.errno = "socket" /\ e.p = th[t].p /\ e.addrs = th[t].addrs
        /\ e.listp = th[t].listp
    BY <1>1, <1>2, ErrnoSet DEF Errnos
  <2>2. /\ m \in Locals /\ m.pc = "socket" /\ m.p = th[t].p + 1 /\ m.addrs = th[t].addrs
        /\ m.listp = th[t].listp /\ m.errno = "socket"
    <3>1. /\ m \in Locals /\ m.pc = "socket" /\ m.p = e.p + 1 /\ m.addrs = e.addrs
          /\ m.listp = e.listp /\ m.errno = e.errno
      BY <2>1, m = Open!NextAddress(e), Advanced
    <3> QED BY <2>1, <3>1
  <2>3. Place(m, Open!Owned(t))
    BY <1>1, <2>2 DEF Place
  <2> QED BY <1>1, <1>2, <2>2, <2>3, LocalStep
<1>3. ASSUME NEW fd \in Fds, owner[fd] = "free", owner' = [owner EXCEPT ![Open!Lowest] = t],
             NEW m, m = [th[t] EXCEPT !.fd = Open!Lowest, !.pc = "attempt"], Open!Set(t, m)
      PROVE  OpenInv'
  <2>1. Open!Lowest \in Fds /\ owner[Open!Lowest] = "free" /\ Open!Lowest \in Nat
    BY <1>3, LowestFree
  <2>2. /\ m \in Locals /\ m.pc = "attempt" /\ m.fd = Open!Lowest
        /\ m.p = th[t].p /\ m.addrs = th[t].addrs /\ m.listp = th[t].listp
    <3>1. PICK g : g = [th[t] EXCEPT !.fd = Open!Lowest]
      OBVIOUS
    <3>2. /\ g \in Locals /\ g.fd = Open!Lowest
          /\ g.p = th[t].p /\ g.addrs = th[t].addrs /\ g.listp = th[t].listp
      BY <1>1, <2>1, <3>1, FdSet
    <3>3. m = [g EXCEPT !.pc = "attempt"]
      BY <1>3, <3>1
    <3> QED BY <3>2, <3>3, GoTo DEF PCs
  <2>3. {e \in Fds : owner'[e] = t} = {Open!Lowest}
    BY <1>1, <1>3, <2>1 DEF Place, Open!Owned
  <2>4. Place(m, {Open!Lowest})
    BY <1>1, <2>2 DEF Place
  <2>5. owner' \in [Fds -> Open!Threads \union {"free"}]
    BY <1>1, <1>3
  <2>6. \A d \in Fds : owner'[d] = owner[d] \/ {owner'[d], owner[d]} \subseteq {t, "free"}
    BY <1>1, <1>3, <2>1
  <2> QED BY <1>1, <1>3, <2>2, <2>3, <2>4, <2>5, <2>6, ThreadStep
<1> QED BY <1>2, <1>3 DEF Open!socket

LEMMA AttemptStep ==
  ASSUME OpenInv, NEW t \in Open!Threads, Open!attempt(t)
  PROVE  OpenInv'
<1>1. /\ ~ exited /\ exited' = exited /\ UNCHANGED owner /\ th[t] \in Locals
      /\ th[t].pc = "attempt" /\ Place(th[t], Open!Owned(t))
  BY DEF Open!attempt, Open!At, OpenInv, OpenTypeOK
<1>2. ASSUME NEW m, m = [th[t] EXCEPT !.pc = "freeaddrinfo"], Open!Set(t, m)
      PROVE  OpenInv'
  <2>1. /\ m \in Locals /\ m.pc = "freeaddrinfo" /\ m.fd = th[t].fd
        /\ m.p = th[t].p /\ m.addrs = th[t].addrs /\ m.listp = th[t].listp
    BY <1>1, <1>2, GoTo DEF PCs
  <2>2. Place(m, Open!Owned(t))
    BY <1>1, <2>1 DEF Place
  <2> QED BY <1>1, <1>2, <2>1, <2>2, LocalStep
<1>3. ASSUME NEW m, m = [th[t] EXCEPT !.errno = "attempt", !.pc = "close"], Open!Set(t, m)
      PROVE  OpenInv'
  <2>1. PICK e : e = [th[t] EXCEPT !.errno = "attempt"]
    OBVIOUS
  <2>2. /\ e \in Locals /\ e.errno = "attempt" /\ e.fd = th[t].fd
        /\ e.p = th[t].p /\ e.addrs = th[t].addrs /\ e.listp = th[t].listp
    BY <1>1, <2>1, ErrnoSet DEF Errnos
  <2>3. m = [e EXCEPT !.pc = "close"]
    BY <1>3, <2>1
  <2>4. /\ m \in Locals /\ m.pc = "close" /\ m.errno = "attempt" /\ m.fd = th[t].fd
        /\ m.p = th[t].p /\ m.addrs = th[t].addrs /\ m.listp = th[t].listp
    BY <2>2, <2>3, GoTo DEF PCs
  <2>5. Place(m, Open!Owned(t))
    BY <1>1, <2>4 DEF Place
  <2> QED BY <1>1, <1>3, <2>4, <2>5, LocalStep
<1> QED BY <1>2, <1>3 DEF Open!attempt

(* The two places where a descriptor is closed, whether close fails or not.*)
LEMMA ClosingStep ==
  ASSUME OpenInv, NEW t \in Open!Threads, Open!close(t) \/ Open!CloseUnlistened(t)
  PROVE  OpenInv'
<1>1. /\ ~ exited /\ exited' = exited /\ th[t] \in Locals
      /\ th[t].pc \in {"close", "unlisten"} /\ Place(th[t], Open!Owned(t)) /\ Open!Owned(t) = {th[t].fd}
      /\ th[t].addrs \in Nat /\ th[t].p \in Nat
  BY DEF Open!close, Open!CloseUnlistened, Open!At, OpenInv, OpenTypeOK, Place, Locals
<1>2. ASSUME NEW e, e = [th[t] EXCEPT !.errno = "close"], NEW m, m = Open!Returning(e, -1),
             Open!Set(t, m), owner' \in {owner, [owner EXCEPT ![th[t].fd] = "free"]}
      PROVE  OpenInv'
  <2>1. e \in Locals /\ e.errno = "close"
    BY <1>1, <1>2, ErrnoSet DEF Errnos
  <2>2. m \in Locals /\ m.pc = "returned" /\ m.ret = -1 /\ m.errno = "close"
    <3>1. m \in Locals /\ m.pc = "returned" /\ m.ret = -1 /\ m.errno = e.errno
      BY <2>1, m = Open!Returning(e, -1), Answered
    <3> QED BY <2>1, <3>1
  <2>3. \A S : Place(m, S)
    BY <2>2 DEF Place
  <2> QED BY <1>1, <1>2, <2>2, <2>3, LocalStep, CloseStep
<1>3. ASSUME NEW m, m = Open!NextAddress(th[t]), th[t].pc = "close", Open!Set(t, m),
             owner' = [owner EXCEPT ![th[t].fd] = "free"]
      PROVE  OpenInv'
  <2>1. /\ m \in Locals /\ m.pc = "socket" /\ m.p = th[t].p + 1 /\ m.addrs = th[t].addrs
        /\ m.listp = th[t].listp /\ m.errno = th[t].errno
    BY <1>1, <1>3, Advanced
  <2>2. /\ th[t].pc = "close" /\ m.pc = "socket" /\ m.listp = "held" /\ m.errno # "unset"
        /\ m.p <= m.addrs + 1 /\ m.addrs >= 1
    BY <1>1, <1>3, <2>1 DEF Place
  <2>3. Place(m, {})
    BY <2>2 DEF Place
  <2> QED BY <1>1, <1>3, <2>1, <2>3, CloseStep
<1>4. ASSUME th[t].pc = "unlisten", NEW m, m = Open!Returning(th[t], -1), Open!Set(t, m),
             owner' = [owner EXCEPT ![th[t].fd] = "free"]
      PROVE  OpenInv'
  <2>1. /\ m \in Locals /\ m.pc = "returned" /\ m.ret = -1
        /\ m.listp = th[t].listp /\ m.errno = th[t].errno
    BY <1>1, <1>4, Answered
  <2>2. Place(m, {})
    BY <1>1, <1>4, <2>1 DEF Place
  <2> QED BY <1>1, <1>4, <2>1, <2>2, CloseStep
<1> QED BY <1>2, <1>3, <1>4 DEF Open!close, Open!CloseUnlistened, Open!At

LEMMA FreeaddrinfoStep ==
  ASSUME OpenInv, NEW t \in Open!Threads, Open!freeaddrinfo(t)
  PROVE  OpenInv'
<1>1. /\ ~ exited /\ exited' = exited /\ UNCHANGED owner /\ th[t] \in Locals
      /\ th[t].pc \in {"freeaddrinfo", "socket"} /\ Place(th[t], Open!Owned(t))
      /\ th[t].addrs \in Nat /\ th[t].p \in Nat /\ th[t].fd \in Nat
  BY DEF Open!freeaddrinfo, Open!Exhausted, OpenInv, OpenTypeOK, Locals
<1>2. PICK freed : freed = [th[t] EXCEPT !.listp = "freed"]
  OBVIOUS
<1>3. /\ freed \in Locals /\ freed.listp = "freed" /\ freed.pc = th[t].pc
      /\ freed.errno = th[t].errno /\ freed.fd = th[t].fd
  BY <1>1, <1>2, ListFreed
<1>4. CASE Open!Exhausted(t)
  <2>1. PICK m : m = Open!Returning(freed, -1)
    OBVIOUS
  <2>2. /\ m \in Locals /\ m.pc = "returned" /\ m.ret = -1
        /\ m.listp = "freed" /\ m.errno = th[t].errno
    BY <1>3, <2>1, Answered
  <2>3. Place(m, Open!Owned(t))
    BY <1>1, <1>4, <2>2 DEF Place, Open!Exhausted
  <2>4. Open!Set(t, m)
    BY <1>2, <1>4, <2>1 DEF Open!freeaddrinfo
  <2> QED BY <1>1, <2>2, <2>3, <2>4, LocalStep
<1>5. CASE ~ Open!Exhausted(t) /\ t = "client"
  <2>1. PICK m : m = Open!Returning(freed, freed.fd)
    OBVIOUS
  <2>2. /\ m \in Locals /\ m.pc = "returned" /\ m.ret = th[t].fd
        /\ m.listp = "freed" /\ m.errno = th[t].errno
    <3>1. freed.fd \in Int
      BY <1>1, <1>3
    <3> QED BY <1>3, <2>1, <3>1, Answered
  <2>3. Place(m, Open!Owned(t))
    BY <1>1, <1>5, <2>2 DEF Place, Open!Exhausted, Open!freeaddrinfo
  <2>4. Open!Set(t, m)
    BY <1>2, <1>5, <2>1 DEF Open!freeaddrinfo
  <2> QED BY <1>1, <2>2, <2>3, <2>4, LocalStep
<1>6. CASE ~ Open!Exhausted(t) /\ t = "server"
  <2>1. PICK m : m = [freed EXCEPT !.pc = "listen"]
    OBVIOUS
  <2>2. /\ m \in Locals /\ m.pc = "listen" /\ m.fd = th[t].fd /\ m.listp = "freed"
    BY <1>3, <2>1, GoTo DEF PCs
  <2>3. Place(m, Open!Owned(t))
    BY <1>1, <1>6, <2>2 DEF Place, Open!Exhausted, Open!freeaddrinfo
  <2>4. Open!Set(t, m)
    BY <1>2, <1>6, <2>1 DEF Open!freeaddrinfo
  <2> QED BY <1>1, <2>2, <2>3, <2>4, LocalStep
<1> QED BY <1>4, <1>5, <1>6 DEF Open!Threads

LEMMA ListenStep ==
  ASSUME OpenInv, NEW t \in Open!Threads, Open!listen(t)
  PROVE  OpenInv'
<1>1. /\ ~ exited /\ exited' = exited /\ UNCHANGED owner /\ th[t] \in Locals
      /\ th[t].pc = "listen" /\ Place(th[t], Open!Owned(t)) /\ th[t].fd \in Nat
  BY DEF Open!listen, Open!At, OpenInv, OpenTypeOK, Locals
<1>2. ASSUME NEW m, m = Open!Returning(th[t], th[t].fd), Open!Set(t, m)
      PROVE  OpenInv'
  <2>1. m \in Locals /\ m.pc = "returned" /\ m.ret = th[t].fd /\ m.listp = th[t].listp
    BY <1>1, <1>2, Answered
  <2>2. Place(m, Open!Owned(t))
    BY <1>1, <2>1 DEF Place
  <2> QED BY <1>1, <1>2, <2>1, <2>2, LocalStep
<1>3. ASSUME NEW m, m = [th[t] EXCEPT !.errno = "listen", !.pc = "unlisten"], Open!Set(t, m)
      PROVE  OpenInv'
  <2>1. PICK e : e = [th[t] EXCEPT !.errno = "listen"]
    OBVIOUS
  <2>2. e \in Locals /\ e.errno = "listen" /\ e.fd = th[t].fd /\ e.listp = th[t].listp
    BY <1>1, <2>1, ErrnoSet DEF Errnos
  <2>3. m = [e EXCEPT !.pc = "unlisten"]
    BY <1>3, <2>1
  <2>4. /\ m \in Locals /\ m.pc = "unlisten" /\ m.errno = "listen"
        /\ m.fd = th[t].fd /\ m.listp = th[t].listp
    BY <2>2, <2>3, GoTo DEF PCs
  <2>5. Place(m, Open!Owned(t))
    BY <1>1, <2>4 DEF Place
  <2> QED BY <1>1, <1>3, <2>4, <2>5, LocalStep
<1> QED BY <1>2, <1>3 DEF Open!listen

(* After unix_error nothing is owned and nothing runs.                     *)
LEMMA ExitStep ==
  ASSUME OpenInv, NEW t \in Open!Threads, Open!unix_error(t)
  PROVE  OpenInv'
BY DEF Open!unix_error, OpenInv, OpenTypeOK

(* Nothing is owned at the start.                                          *)
LEMMA InitOpenInv == Open!Init => OpenInv
<1> SUFFICES ASSUME Open!Init PROVE OpenInv
  OBVIOUS
<1>1. OpenTypeOK
  <2>1. PICK w \in Truth :
          th = [t \in Open!Threads |-> [pc |-> "getaddrinfo", wrapped |-> w, addrs |-> 0, p |-> 0,
                                   listp |-> "none", fd |-> 0, errno |-> "unset", ret |-> 0]]
    BY DEF Open!Init, Truth
  <2>2. th \in [Open!Threads -> Locals]
    BY <2>1 DEF Locals, PCs, Errnos
  <2> QED BY <2>2 DEF Open!Init, OpenTypeOK
<1>2. ASSUME NEW t \in Open!Threads PROVE Place(th[t], Open!Owned(t))
  <2>1. Open!Owned(t) = {} /\ th[t].pc = "getaddrinfo" /\ th[t].listp = "none"
    BY DEF Open!Init, Open!Owned, Open!Threads
  <2> QED BY <2>1 DEF Place
<1> QED BY <1>1, <1>2 DEF OpenInv

(* At every system call of either thread it owns the descriptor it works   *)
(* on and no other, and holds its address list until it has freed it.      *)
THEOREM OpenInvariance == CsappSpec => []OpenInv
<1>1. CsappInit => OpenInv
  BY InitOpenInv DEF CsappInit
<1>2. OpenInv /\ [CsappNext]_allVars => OpenInv'
  <2> SUFFICES ASSUME OpenInv, [CsappNext]_allVars PROVE OpenInv'
    OBVIOUS
  <2>1. CASE OpenStep
    BY <2>1, OpenAssumption, GetaddrinfoStep, SocketStep, AttemptStep, ClosingStep,
       FreeaddrinfoStep, ListenStep, ExitStep
    DEF OpenStep, Open!Next, OpenAssumption
  <2>2. CASE UNCHANGED openVars
    BY <2>2 DEF openVars, OpenInv, OpenTypeOK, Place, Open!Owned
  <2> QED BY <2>1, <2>2 DEF CsappNext, RioStep, ProcessStep, allVars
<1> QED BY <1>1, <1>2, PTL DEF CsappSpec

(* Each thread ends a call with the descriptor it answers and no other,    *)
(* and with its address list freed, whatever fails on the way and whatever *)
(* the other thread opens and closes meanwhile.                            *)
THEOREM NoLeak == CsappSpec => []OnlyTheAnswer
<1>1. OpenInv => OnlyTheAnswer
  BY DEF OpenInv, Place, OnlyTheAnswer, Open!OnlyTheAnswer
<1> QED BY <1>1, OpenInvariance, PTL
=============================================================================
