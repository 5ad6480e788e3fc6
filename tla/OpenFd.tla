-------------------------------- MODULE OpenFd ------------------------------
(***************************************************************************)
(* open_clientfd and open_listenfd of csapp.c, called by two threads of a  *)
(* process: each gets a list of addresses, tries them one after the other  *)
(* and answers one descriptor.  Every system call is a step and may fail.  *)
(* The threads share the process's table of descriptors, not errno.        *)
(***************************************************************************)
EXTENDS Integers, FiniteSets

CONSTANTS
  MaxAddrs,   \* bound: addresses of a list
  Fds         \* descriptors that may be opened, all but the standard streams

VARIABLES
  owner,   \* of each descriptor: the thread that opened it, or "free"
  th,      \* the locals of each thread
  exited   \* unix_error has ended the process

vars == <<owner, th, exited>>

Threads == {"client", "server"}   \* who calls open_clientfd, who open_listenfd

Init ==
  /\ owner = [fd \in Fds |-> "free"]
  /\ \E wrapped \in BOOLEAN :
       th = [t \in Threads |-> [pc |-> "getaddrinfo", wrapped |-> wrapped, addrs |-> 0, p |-> 0,
                                listp |-> "none", fd |-> 0, errno |-> "unset", ret |-> 0]]
  /\ exited = FALSE

At(t, pc) == ~ exited /\ th[t].pc = pc
Set(t, locals) == th' = [th EXCEPT ![t] = locals]
Returning(locals, ret) == [locals EXCEPT !.pc = "returned", !.ret = ret]

(* The list of the addresses, or the answer -2.                            *)
getaddrinfo(t) ==
  /\ At(t, "getaddrinfo")
  /\ \/ Set(t, Returning(th[t], -2))
     \/ \E n \in 1 .. MaxAddrs :
          Set(t, [th[t] EXCEPT !.addrs = n, !.p = 1, !.listp = "held", !.pc = "socket"])
  /\ UNCHANGED <<owner, exited>>

NextAddress(locals) == [locals EXCEPT !.p = @ + 1, !.pc = "socket"]

(* The kernel answers the lowest descriptor that is free.                  *)
Lowest == CHOOSE fd \in Fds : owner[fd] = "free" /\ \A e \in Fds : owner[e] = "free" => fd <= e

socket(t) ==
  /\ At(t, "socket") /\ th[t].p <= th[t].addrs
  /\ \/ /\ Set(t, NextAddress([th[t] EXCEPT !.errno = "socket"]))
        /\ UNCHANGED owner
     \/ /\ \E fd \in Fds : owner[fd] = "free"
        /\ owner' = [owner EXCEPT ![Lowest] = t]
        /\ Set(t, [th[t] EXCEPT !.fd = Lowest, !.pc = "attempt"])
  /\ UNCHANGED exited

(* connect, or setsockopt (whose answer is not looked at) and bind.        *)
attempt(t) ==
  /\ At(t, "attempt")
  /\ \/ Set(t, [th[t] EXCEPT !.pc = "freeaddrinfo"])
     \/ Set(t, [th[t] EXCEPT !.errno = "attempt", !.pc = "close"])
  /\ UNCHANGED <<owner, exited>>

(* close; when it fails the descriptor may be gone or not.                 *)
Mut_close(t) ==   \* the next address is tried without closing
  /\ At(t, "close")
  /\ Set(t, NextAddress(th[t]))
  /\ UNCHANGED <<owner, exited>>
close(t) ==
  /\ At(t, "close")
  /\ \/ /\ owner' = [owner EXCEPT ![th[t].fd] = "free"]
        /\ Set(t, NextAddress(th[t]))
     \/ /\ owner' \in {owner, [owner EXCEPT ![th[t].fd] = "free"]}
        /\ Set(t, Returning([th[t] EXCEPT !.errno = "close"], -1))
  /\ UNCHANGED exited

Exhausted(t) == th[t].pc = "socket" /\ th[t].p > th[t].addrs

freeaddrinfo(t) ==
  /\ ~ exited /\ (th[t].pc = "freeaddrinfo" \/ Exhausted(t))
  /\ LET freed == [th[t] EXCEPT !.listp = "freed"]
     IN  CASE Exhausted(t)   -> Set(t, Returning(freed, -1))
           [] ~ Exhausted(t) /\ t = "client" -> Set(t, Returning(freed, freed.fd))
           [] ~ Exhausted(t) /\ t = "server" -> Set(t, [freed EXCEPT !.pc = "listen"])
  /\ UNCHANGED <<owner, exited>>

(* listen; the answer of the close that follows a failure is not looked at *)
listen(t) ==
  /\ At(t, "listen")
  /\ \/ Set(t, Returning(th[t], th[t].fd)) /\ UNCHANGED owner
     \/ Set(t, [th[t] EXCEPT !.errno = "listen", !.pc = "unlisten"]) /\ UNCHANGED owner
  /\ UNCHANGED exited

CloseUnlistened(t) ==
  /\ At(t, "unlisten")
  /\ \/ /\ owner' = [owner EXCEPT ![th[t].fd] = "free"]
        /\ Set(t, Returning(th[t], -1))
     \/ /\ owner' \in {owner, [owner EXCEPT ![th[t].fd] = "free"]}
        /\ Set(t, Returning([th[t] EXCEPT !.errno = "close"], -1))
  /\ UNCHANGED exited

(* Open_clientfd and Open_listenfd: unix_error calls exit.                 *)
unix_error(t) ==
  /\ At(t, "returned") /\ th[t].wrapped /\ th[t].ret < 0
  /\ exited' = TRUE
  /\ owner' = [fd \in Fds |-> "free"]
  /\ UNCHANGED th

Next == \E t \in Threads :
  \/ getaddrinfo(t) \/ socket(t) \/ attempt(t) \/ close(t)
  \/ freeaddrinfo(t) \/ listen(t) \/ CloseUnlistened(t) \/ unix_error(t)

Spec == Init /\ [][Next]_vars

(***************************************************************************)
(* Safety.                                                                 *)
(***************************************************************************)
Owned(t) == {fd \in Fds : owner[fd] = t}

(* A thread that is answered a descriptor owns that one and no other, which*)
(* nobody has closed meanwhile; one that is answered an error owns none,   *)
(* unless close itself failed.  The comment of both functions: -2 is an    *)
(* error of getaddrinfo, -1 comes with an errno this call has set.  The    *)
(* list of addresses is freed, except behind a failed close.               *)
OnlyTheAnswer == \A t \in Threads :
  LET l == th[t] IN
  ~ exited /\ l.pc = "returned" =>
    /\ l.ret >= 0 => Owned(t) = {l.ret}
    /\ l.ret < 0 /\ l.errno # "close" => Owned(t) = {}
    /\ l.ret = -1 => l.errno # "unset"
    /\ l.ret = -2 => l.listp = "none"
    /\ l.listp = "held" => l.errno = "close" /\ l.ret = -1
=============================================================================
