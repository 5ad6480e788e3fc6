-------------------------------- MODULE Rio ---------------------------------
(***************************************************************************)
(* The Rio functions of csapp.c: a process writes a stream of bytes with   *)
(* rio_writen, another reads it from the other end of a pipe, either with  *)
(* rio_readn or, through a rio_t, with rio_readnb and rio_readlineb.       *)
(*                                                                         *)
(* A byte is its position in the stream, 1 .. Total.  Each system call is  *)
(* one step: it moves some of the bytes it is asked for, is interrupted by *)
(* a signal handler, or fails.  A call that would block is not enabled.    *)
(***************************************************************************)
EXTENDS Integers

CONSTANTS
  Total,        \* bytes the writer has
  Newlines,     \* those that are '\n'
  RIO_BUFSIZE,  \* bytes of rio_buf
  PIPE_BUF,     \* bytes the pipe holds
  WriteSizes,   \* n of rio_writen
  ReadSizes,    \* n of rio_readn and rio_readnb
  LineSizes,    \* maxlen of rio_readlineb
  MaxLen        \* bytes of the reader's buffer

ASSUME RioAssumption ==
  /\ Total \in Nat /\ Newlines \subseteq 1 .. Total
  /\ RIO_BUFSIZE \in Nat \ {0} /\ PIPE_BUF \in Nat \ {0} /\ MaxLen \in Nat
  /\ WriteSizes \subseteq Nat \ {0}
  /\ ReadSizes \subseteq 1 .. MaxLen
  /\ LineSizes \subseteq 1 .. MaxLen

VARIABLES
  stream, put, taken,       \* the pipe: what was written, how much, how much was read
  closed,                   \* the writer's end is closed
  wpc, wn, wleft, wbufp,    \* rio_writen: n, nleft, and bufp as an offset
  errno,                    \* of the writer
  wbase,                    \* bytes of the writer's earlier calls
  buffered,                 \* the reader uses a rio_t
  rio_buf, rio_bufptr, rio_cnt,
  call,                     \* the reader's call
  nleft, n, bufp, usrbuf,   \* its locals and the buffer it was given
  got, out,                 \* auxiliary: how many bytes the calls answered, and which
  lost                      \* auxiliary: bytes a failed call had already moved

pipeVars == <<stream, put, taken, closed>>
writerVars == <<wpc, wn, wleft, wbufp, errno, wbase>>
rioVars == <<rio_buf, rio_bufptr, rio_cnt>>
localVars == <<nleft, n, bufp, usrbuf>>
auxVars == <<got, out, lost>>
readerVars == <<buffered, rioVars, call, localVars, auxVars>>
vars == <<pipeVars, writerVars, readerVars>>

Unset == -1            \* what nothing has been written to yet
Bytes == -1 .. Total   \* 0 is the NUL
Least(a, b) == IF a < b THEN a ELSE b

(* rio_readinitb, and a reader that has not called anything.               *)
Init ==
  /\ stream = [j \in 1 .. Total |-> Unset] /\ put = 0 /\ taken = 0 /\ closed = FALSE
  /\ wpc = "idle" /\ wn = 0 /\ wleft = 0 /\ wbufp = 0 /\ errno = "none" /\ wbase = 0
  /\ buffered \in BOOLEAN
  /\ rio_buf = [i \in 0 .. RIO_BUFSIZE - 1 |-> Unset] /\ rio_bufptr = 0 /\ rio_cnt = 0
  /\ call = [fn |-> "none", st |-> "returned", n |-> 0, ret |-> 0]
  /\ nleft = 0 /\ n = 0 /\ bufp = 0 /\ usrbuf = [i \in 0 .. MaxLen - 1 |-> Unset]
  /\ got = 0 /\ out = [j \in 1 .. Total |-> Unset] /\ lost = 0

(***************************************************************************)
(* rio_writen.  Its buffer holds the next k bytes of the stream.           *)
(***************************************************************************)
rio_writen(k) ==
  /\ wpc = "idle" /\ wbase + k <= Total
  /\ wpc' = "writing" /\ wn' = k /\ wleft' = k /\ wbufp' = 0
  /\ UNCHANGED <<pipeVars, errno, wbase, readerVars>>

usr(i) == wbase + i + 1   \* byte i of the writer's buffer

Writing == wpc = "writing" /\ wleft > 0

Mut_Write(k) ==   \* bufp += nwritten is forgotten
  /\ Writing /\ k \in 1 .. wleft /\ put - taken + k <= PIPE_BUF
  /\ stream' = [j \in DOMAIN stream |->
                  IF put < j /\ j <= put + k THEN usr(wbufp + (j - put - 1)) ELSE stream[j]]
  /\ put' = put + k
  /\ wleft' = wleft - k
  /\ UNCHANGED <<taken, closed, wpc, wn, wbufp, errno, wbase, readerVars>>
Write(k) ==
  /\ Writing /\ k \in 1 .. wleft /\ put - taken + k <= PIPE_BUF
  /\ stream' = [j \in DOMAIN stream |->
                  IF put < j /\ j <= put + k THEN usr(wbufp + (j - put - 1)) ELSE stream[j]]
  /\ put' = put + k
  /\ wleft' = wleft - k /\ wbufp' = wbufp + k
  /\ UNCHANGED <<taken, closed, wpc, wn, errno, wbase, readerVars>>

WriteInterrupted ==   \* -1, EINTR: call write again
  /\ Writing /\ errno' = "EINTR"
  /\ UNCHANGED <<pipeVars, wpc, wn, wleft, wbufp, wbase, readerVars>>

(* Rio_writen: any other answer ends the process, and that closes the pipe *)
Exit ==
  /\ wpc' = "exited" /\ closed' = TRUE
  /\ UNCHANGED <<stream, put, taken, wn, wleft, wbufp, wbase, readerVars>>

WriteFails == Writing /\ errno' = "other" /\ Exit

(* write answers 0 and leaves errno alone: what is tested is its last      *)
(* value.  An EINTR of before makes the loop call write again, which       *)
(* changes nothing.                                                        *)
WriteZero == Writing /\ errno # "EINTR" /\ UNCHANGED errno /\ Exit

WriteReturns ==
  /\ wpc = "writing" /\ wleft = 0
  /\ wpc' = "idle" /\ wbase' = wbase + wn
  /\ UNCHANGED <<pipeVars, wn, wleft, wbufp, errno, readerVars>>

(* The writer is done, or dies.                                            *)
WriterEnds == wpc # "exited" /\ UNCHANGED errno /\ Exit

(***************************************************************************)
(* The calls of the reader.                                                *)
(***************************************************************************)
Call(fn, k) ==
  /\ call.st = "returned"
  /\ call' = [fn |-> fn, st |-> "called", n |-> k, ret |-> 0]
  /\ nleft' = k /\ n' = 1 /\ bufp' = 0 /\ usrbuf' = [i \in DOMAIN usrbuf |-> Unset]
  /\ UNCHANGED <<pipeVars, writerVars, buffered, rioVars, auxVars>>

rio_readn(k) == ~ buffered /\ Call("rio_readn", k)
rio_readnb(k) == buffered /\ Call("rio_readnb", k)
rio_readlineb(k) == buffered /\ Call("rio_readlineb", k)

In(fn) == call.st = "called" /\ call.fn = fn

(* The call returns; ret bytes of the buffer are the caller's.             *)
Return(ret, moved) ==
  /\ call' = [call EXCEPT !.st = "returned", !.ret = ret]
  /\ IF ret < 0
     THEN lost' = lost + moved /\ UNCHANGED <<got, out>>
     ELSE /\ got' = got + ret
          /\ out' = [j \in DOMAIN out |->
                       IF got < j /\ j <= got + ret THEN usrbuf'[j - got - 1] ELSE out[j]]
          /\ UNCHANGED lost

(* read moves k bytes from the pipe to buf[at ..].                         *)
Readable(limit) == 1 .. Least(limit, put - taken)
Moved(buf, at, k) ==
  [i \in DOMAIN buf |-> IF at <= i /\ i < at + k THEN stream[taken + 1 + (i - at)] ELSE buf[i]]
EndOfFile == closed /\ put = taken

(***************************************************************************)
(* rio_readn.  (An EINTR changes nothing: read is called again.)           *)
(***************************************************************************)
ReadnMore == In("rio_readn") /\ nleft > 0

ReadnSome(k) ==
  /\ ReadnMore /\ k \in Readable(nleft)
  /\ usrbuf' = Moved(usrbuf, bufp, k) /\ taken' = taken + k
  /\ nleft' = nleft - k /\ bufp' = bufp + k
  /\ UNCHANGED <<stream, put, closed, writerVars, buffered, rioVars, call, n, auxVars>>

ReadnFails ==
  /\ ReadnMore
  /\ UNCHANGED <<pipeVars, writerVars, buffered, rioVars, localVars>>
  /\ Return(-1, bufp)

Mut_ReadnReturns ==   \* read again at end of file
  /\ In("rio_readn") /\ nleft = 0
  /\ UNCHANGED <<pipeVars, writerVars, buffered, rioVars, localVars>>
  /\ Return(call.n - nleft, bufp)
ReadnReturns ==
  /\ In("rio_readn") /\ (nleft = 0 \/ EndOfFile)
  /\ UNCHANGED <<pipeVars, writerVars, buffered, rioVars, localVars>>
  /\ Return(call.n - nleft, bufp)

(***************************************************************************)
(* rio_read, called by the loops of rio_readnb and rio_readlineb.          *)
(***************************************************************************)
Reading == \/ In("rio_readnb") /\ nleft > 0
           \/ In("rio_readlineb") /\ n < call.n
Empty == rio_cnt <= 0

Refill(k) ==
  /\ Reading /\ Empty /\ k \in Readable(RIO_BUFSIZE)
  /\ rio_buf' = Moved(rio_buf, 0, k) /\ taken' = taken + k
  /\ rio_cnt' = k /\ rio_bufptr' = 0
  /\ UNCHANGED <<stream, put, closed, writerVars, buffered, call, localVars, auxVars>>

RefillInterrupted ==   \* rio_cnt is -1: the loop calls read again
  /\ Reading /\ Empty /\ rio_cnt' = -1
  /\ UNCHANGED <<pipeVars, writerVars, buffered, rio_buf, rio_bufptr, call, localVars, auxVars>>

(* The error is passed on, whatever the call has moved before it.          *)
RefillFails ==
  /\ Reading /\ Empty /\ rio_cnt' = -1
  /\ UNCHANGED <<pipeVars, writerVars, buffered, rio_buf, rio_bufptr, localVars>>
  /\ Return(-1, bufp)

(* memcpy of cnt bytes to bufp, and rp moves on.                           *)
Mut_Take(cnt) ==   \* rio_bufptr += cnt is forgotten
  /\ usrbuf' = [i \in DOMAIN usrbuf |->
                  IF bufp <= i /\ i < bufp + cnt THEN rio_buf[rio_bufptr + (i - bufp)] ELSE usrbuf[i]]
  /\ rio_cnt' = rio_cnt - cnt
  /\ bufp' = bufp + cnt
  /\ UNCHANGED rio_bufptr
Take(cnt) ==
  /\ usrbuf' = [i \in DOMAIN usrbuf |->
                  IF bufp <= i /\ i < bufp + cnt THEN rio_buf[rio_bufptr + (i - bufp)] ELSE usrbuf[i]]
  /\ rio_bufptr' = rio_bufptr + cnt /\ rio_cnt' = rio_cnt - cnt
  /\ bufp' = bufp + cnt

(***************************************************************************)
(* rio_readnb and rio_readlineb.                                           *)
(***************************************************************************)
ReadnbTake ==
  /\ In("rio_readnb") /\ nleft > 0 /\ ~ Empty
  /\ Take(Least(nleft, rio_cnt))
  /\ nleft' = nleft - Least(nleft, rio_cnt)
  /\ UNCHANGED <<pipeVars, writerVars, buffered, rio_buf, call, n, auxVars>>

Mut_ReadnbReturns ==   \* one rio_read is all
  /\ In("rio_readnb")
  /\ \/ (nleft = 0 \/ bufp > 0) /\ UNCHANGED rio_cnt
     \/ nleft > 0 /\ Empty /\ EndOfFile /\ rio_cnt' = 0
  /\ UNCHANGED <<pipeVars, writerVars, buffered, rio_buf, rio_bufptr, localVars>>
  /\ Return(call.n - nleft, bufp)
ReadnbReturns ==
  /\ In("rio_readnb")
  /\ \/ nleft = 0 /\ UNCHANGED rio_cnt
     \/ nleft > 0 /\ Empty /\ EndOfFile /\ rio_cnt' = 0
  /\ UNCHANGED <<pipeVars, writerVars, buffered, rio_buf, rio_bufptr, localVars>>
  /\ Return(call.n - nleft, bufp)

IsNewline(b) == b \in Newlines

(* One round of the loop; a newline ends it after the n++ of its own.      *)
Mut_ReadlinebTake ==   \* the n++ of the newline is forgotten
  /\ In("rio_readlineb") /\ n < call.n /\ ~ Empty
  /\ Take(1)
  /\ n' = IF IsNewline(rio_buf[rio_bufptr]) THEN n ELSE n + 1
  /\ call' = [call EXCEPT !.st = IF IsNewline(rio_buf[rio_bufptr]) THEN "line" ELSE @]
  /\ UNCHANGED <<pipeVars, writerVars, buffered, rio_buf, nleft, auxVars>>
ReadlinebTake ==
  /\ In("rio_readlineb") /\ n < call.n /\ ~ Empty
  /\ Take(1)
  /\ n' = n + 1
  /\ call' = [call EXCEPT !.st = IF IsNewline(rio_buf[rio_bufptr]) THEN "line" ELSE @]
  /\ UNCHANGED <<pipeVars, writerVars, buffered, rio_buf, nleft, auxVars>>

(* *bufp = 0                                                               *)
Mut_Terminate == usrbuf' = [i \in DOMAIN usrbuf |-> IF i = bufp - 1 THEN 0 ELSE usrbuf[i]]
Terminate == usrbuf' = [i \in DOMAIN usrbuf |-> IF i = bufp THEN 0 ELSE usrbuf[i]]

ReadlinebReturns ==
  /\ call.fn = "rio_readlineb"
  /\ call.st = "line" \/ (call.st = "called" /\ n = call.n)
  /\ Terminate
  /\ UNCHANGED <<pipeVars, writerVars, buffered, rioVars, nleft, n, bufp>>
  /\ Return(n - 1, bufp)

ReadlinebEOF ==
  /\ In("rio_readlineb") /\ n < call.n /\ Empty /\ EndOfFile
  /\ rio_cnt' = 0
  /\ IF n = 1 THEN UNCHANGED usrbuf ELSE Terminate
  /\ UNCHANGED <<pipeVars, writerVars, buffered, rio_buf, rio_bufptr, nleft, n, bufp>>
  /\ Return(n - 1, bufp)

(***************************************************************************)
(* The two processes.                                                      *)
(***************************************************************************)
Writer ==
  \/ \E k \in WriteSizes : rio_writen(k)
  \/ \E k \in 1 .. Total : Write(k)
  \/ WriteInterrupted \/ WriteFails \/ WriteZero \/ WriteReturns \/ WriterEnds

Request ==
  \/ \E k \in ReadSizes : rio_readn(k) \/ rio_readnb(k)
  \/ \E k \in LineSizes : rio_readlineb(k)

(* What a call does when no signal interrupts it and read does not fail.   *)
Progress ==
  \/ \E k \in 1 .. PIPE_BUF : ReadnSome(k) \/ Refill(k)
  \/ ReadnReturns
  \/ ReadnbTake \/ ReadnbReturns
  \/ ReadlinebTake \/ ReadlinebReturns \/ ReadlinebEOF

Fault == ReadnFails \/ RefillInterrupted \/ RefillFails

Next == Writer \/ Request \/ Progress \/ Fault

(* A signal interrupts a read now and then, not every one for ever.        *)
Spec == Init /\ [][Next]_vars /\ WF_vars(Progress)

(***************************************************************************)
(* Safety.                                                                 *)
(***************************************************************************)
Unread == IF rio_cnt < 0 THEN 0 ELSE rio_cnt

(* Every variable stays in its type.                                       *)
TypeOK ==
  /\ stream \in [1 .. Total -> Bytes] /\ put \in 0 .. Total /\ taken \in 0 .. put
  /\ closed \in BOOLEAN /\ buffered \in BOOLEAN
  /\ wpc \in {"idle", "writing", "exited"} /\ errno \in {"none", "EINTR", "other"}
  /\ wn \in Nat /\ wleft \in Nat /\ wbufp \in Nat /\ wbase \in 0 .. Total
  /\ rio_buf \in [0 .. RIO_BUFSIZE - 1 -> Bytes]
  /\ rio_bufptr \in 0 .. RIO_BUFSIZE /\ rio_cnt \in -1 .. RIO_BUFSIZE
  /\ call \in [fn : {"none", "rio_readn", "rio_readnb", "rio_readlineb"},
               st : {"called", "line", "returned"}, n : 0 .. MaxLen, ret : -1 .. MaxLen]
  /\ nleft \in 0 .. MaxLen /\ n \in 0 .. MaxLen + 1 /\ bufp \in 0 .. MaxLen
  /\ usrbuf \in [0 .. MaxLen - 1 -> Bytes]
  /\ got \in 0 .. Total /\ out \in [1 .. Total -> Bytes] /\ lost \in 0 .. Total

(* rio_writen answers n only when the kernel has taken all n bytes, and    *)
(* what it has taken is the writer's stream: no short write, interruption  *)
(* or retry repeats, skips or reorders a byte.                             *)
WroteAll ==
  /\ \A j \in 1 .. put : stream[j] = j
  /\ wpc = "idle" => put = wbase

(* The bytes the calls have answered are in the order of the stream, none  *)
(* twice; and none is missing unless a call failed half way.               *)
InOrder ==
  /\ \A i, j \in 1 .. got : i < j => out[i] < out[j]
  /\ lost = 0 => \A j \in 1 .. got : out[j] = j

(* Between two calls every byte read from the pipe was answered, waits in  *)
(* the rio_t, or had been moved by a call that then failed.                *)
Accounted == call.st = "returned" => got + lost + Unread = taken

(* A short count means end of file (csapp.c: rio_readn and rio_readnb      *)
(* "robustly read n bytes").                                               *)
ShortMeansEOF ==
  call.st = "returned" /\ call.fn \in {"rio_readn", "rio_readnb"} =>
    call.ret \in {-1, call.n} \/ (EndOfFile /\ Unread = 0)

(* rio_readlineb answers a line, up to its newline, and a NUL behind it;   *)
(* less only when the buffer is full or the stream ends.                   *)
LineAnswered ==
  LET ret == call.ret IN
  call.st = "returned" /\ call.fn = "rio_readlineb" /\ ret > 0 =>
    /\ \A i \in 0 .. ret - 2 : ~ IsNewline(usrbuf[i])
    /\ usrbuf[ret] = 0
    /\ \/ IsNewline(usrbuf[ret - 1])
       \/ ret = call.n - 1
       \/ EndOfFile /\ Unread = 0

(***************************************************************************)
(* Why: the inductive invariant, in named parts.                           *)
(***************************************************************************)
WriterInv ==
  /\ closed <=> wpc = "exited"
  /\ wpc = "writing" => /\ wbufp + wleft = wn /\ put = wbase + wbufp
                        /\ wbase + wn <= Total

(* The unread bytes of the rio_t are the last ones read from the pipe.     *)
BufferInv ==
  /\ rio_bufptr + Unread <= RIO_BUFSIZE
  /\ \A i \in 0 .. Unread - 1 : rio_buf[rio_bufptr + i] = taken - Unread + 1 + i
  /\ ~ buffered => rio_cnt = 0

(* The call in progress has moved the bufp bytes behind the answered ones. *)
CallInv ==
  /\ call.fn = "rio_readn" => ~ buffered
  /\ call.fn \in {"rio_readnb", "rio_readlineb"} => buffered
  /\ call.fn = "none" => call.st = "returned"
  /\ call.st # "returned" =>
       /\ got + lost + bufp + Unread = taken
       /\ \A i \in 0 .. bufp - 1 : usrbuf[i] = got + lost + 1 + i
       /\ call.fn \in {"rio_readn", "rio_readnb"} => call.st = "called" /\ bufp + nleft = call.n
       /\ call.fn = "rio_readlineb" => n = bufp + 1 /\ n <= call.n
  /\ call.st = "line" => bufp > 0

(* The answered bytes lie below those the next answer will bring.          *)
AnswerInv == \A j \in 1 .. got : 1 <= out[j] /\ out[j] <= got + lost

(* No newline has gone by unnoticed.                                       *)
LineInv ==
  call.st # "returned" /\ call.fn = "rio_readlineb" =>
    /\ \A i \in 0 .. bufp - 2 : ~ IsNewline(usrbuf[i])
    /\ bufp > 0 => (IsNewline(usrbuf[bufp - 1]) <=> call.st = "line")

IInv ==
  /\ TypeOK /\ WroteAll /\ InOrder /\ Accounted /\ ShortMeansEOF /\ LineAnswered
  /\ WriterInv /\ BufferInv /\ CallInv /\ AnswerInv /\ LineInv

(***************************************************************************)
(* Liveness: a call that never returns waits for a byte nobody has written.*)
(***************************************************************************)
NeverStuck ==
  <>[](call.st # "returned") => <>[](taken = put /\ ~ closed /\ Unread = 0)
=============================================================================
