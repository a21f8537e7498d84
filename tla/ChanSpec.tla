------------------------------ MODULE ChanSpec ------------------------------
(***************************************************************************)
(* What thread(2) promises of channels: a call of alt is one atomic        *)
(* operation on one of its channels, taken when it is called or while it   *)
(* waits.  A call waits, or a non-blocking one gives up, only when nothing *)
(* can proceed.  A closed channel delivers what it holds; everything else  *)
(* that is done on it fails.                                               *)
(***************************************************************************)
EXTENDS Integers, Sequences, FiniteSets

CONSTANTS Thread, Chan, Nil, Size, Request

VARIABLES
  buf,                 \* of each channel, what it holds
  closed,              \* of each channel, 0 open, 1 being closed, 2 closed
  req,                 \* of each thread, the call that is not done, or Nil
  at,                  \* the entries that the call waits at
  out,                 \* the result of a call that is done, or Nil
  ret,                 \* what the last step returned, to whom, or Nil
  calls                \* the number of calls; call n sends n

vars == <<buf, closed, req, at, out, ret, calls>>

(* A result: the entry chosen, 0 for an interrupt, one more than there are *)
(* for nothing; whether it failed; what was received                       *)
Result(i, err, v) == [i |-> i, err |-> err, v |-> v]
None == Result(0, FALSE, 0)

Init ==
  /\ buf = [c \in Chan |-> <<>>]
  /\ closed = [c \in Chan |-> 0]
  /\ req = [t \in Thread |-> Nil]
  /\ at = [t \in Thread |-> {}]
  /\ out = [t \in Thread |-> Nil] /\ ret = Nil
  /\ calls = 0

Idle(t) == req[t] = Nil /\ out[t] = Nil

Open(e) == closed[e.c] = 0 \/ (e.op = "RCV" /\ buf[e.c] # <<>>)

(* Who waits to do the opposite of e                                       *)
Partners(e) ==
  UNION {{<<u, j>> : j \in {k \in at[u] : /\ req[u].call.alts[k].c = e.c
                                          /\ req[u].call.alts[k].op # e.op}}
           : u \in Thread}

Can(e) ==
  /\ Open(e)
  /\ \/ Partners(e) # {}
     \/ e.op = "SND" /\ Len(buf[e.c]) < Size[e.c]
     \/ e.op = "RCV" /\ buf[e.c] # <<>>

(* The calls of the domain of r are done, with these results; one may      *)
(* return at once.                                                         *)
Done(r) ==
  \E now \in {{}} \cup {{t} : t \in DOMAIN r} :
    /\ req' = [t \in Thread |-> IF t \in DOMAIN r THEN Nil ELSE req[t]]
    /\ at' = [t \in Thread |-> IF t \in DOMAIN r THEN {} ELSE at[t]]
    /\ out' = [t \in Thread |-> IF t \in DOMAIN r \ now THEN r[t] ELSE out[t]]
    /\ ret' = IF now = {} THEN Nil
              ELSE LET t == CHOOSE t \in now : TRUE IN <<t, r[t]>>

One(t, result) == Done([u \in {t} |-> result])
Two(t, result, u, other) ==
  Done([w \in {t, u} |-> IF w = t THEN result ELSE other])

(* A sender and a receiver, one of which waits; what the channel holds     *)
(* comes first.                                                            *)
Meet(t, r, i) ==
  LET e == r.alts[i] IN
  \E w \in Partners(e) :
    LET u == w[1] IN
    IF e.op = "SND"
    THEN /\ buf[e.c] = <<>> /\ UNCHANGED buf
         /\ Two(t, Result(i, FALSE, 0), u, Result(w[2], FALSE, calls + 1))
    ELSE LET q == Append(buf[e.c], req[u].val) IN
         /\ buf' = [buf EXCEPT ![e.c] = Tail(q)]
         /\ Two(t, Result(i, FALSE, Head(q)), u, Result(w[2], FALSE, 0))

Buffer(t, r, i) ==
  LET e == r.alts[i] IN
  /\ Partners(e) = {}
  /\ IF e.op = "SND"
     THEN /\ buf' = [buf EXCEPT ![e.c] = Append(@, calls + 1)]
          /\ One(t, Result(i, FALSE, 0))
     ELSE /\ buf' = [buf EXCEPT ![e.c] = Tail(@)]
          /\ One(t, Result(i, FALSE, Head(buf[e.c])))

(* Nothing can proceed: a non-blocking call gives up; when every channel   *)
(* is closed, one of the entries not known to be fails; a call waits.      *)
Nothing(t, r) ==
  LET open == {i \in DOMAIN r.alts : Open(r.alts[i])}
      unknown == DOMAIN r.alts \ r.known
  IN
  /\ IF r.nb THEN One(t, Result(Len(r.alts) + 1, FALSE, 0))
     ELSE IF open # {}
     THEN /\ at' = [at EXCEPT ![t] = open]
          /\ req' = [req EXCEPT ![t] = [call |-> r, val |-> calls + 1]]
          /\ ret' = Nil /\ UNCHANGED out
     ELSE IF unknown = {} THEN One(t, None)
     ELSE \E i \in unknown : One(t, Result(i, TRUE, 0))
  /\ UNCHANGED buf

Alt(t, r) ==
  LET can == {i \in DOMAIN r.alts : Can(r.alts[i])} IN
  /\ IF can # {} THEN \E i \in can : Meet(t, r, i) \/ Buffer(t, r, i)
                 ELSE Nothing(t, r)
  /\ UNCHANGED closed

(* A waiting call is interrupted, or fails at a channel being closed.      *)
Interrupt(t) ==
  /\ req[t] # Nil
  /\ One(t, None)
  /\ UNCHANGED <<buf, closed, calls>>

Fail(t, i) ==
  LET e == req[t].call.alts[i] IN
  /\ closed[e.c] # 2
  /\ closed' = [closed EXCEPT ![e.c] = 1]
  /\ e.op = "RCV" => buf[e.c] = <<>>
  /\ One(t, Result(i, TRUE, 0))
  /\ UNCHANGED <<buf, calls>>

Return(t) ==
  /\ out[t] # Nil
  /\ ret' = <<t, out[t]>>
  /\ out' = [out EXCEPT ![t] = Nil]
  /\ UNCHANGED <<buf, closed, req, at, calls>>

(* A channel is closed when nobody waits at it.                            *)
Close(c) ==
  /\ \A t \in Thread : \A i \in at[t] : req[t].call.alts[i].c # c
  /\ closed' = [closed EXCEPT ![c] = 2]
  /\ ret' = Nil
  /\ UNCHANGED <<buf, req, at, out, calls>>

Internal == ret' = Nil /\ UNCHANGED <<buf, closed, req, at, out, calls>>

Next ==
  \/ \E t \in Thread :
       \/ /\ calls' = calls + 1 /\ Idle(t)
          /\ \E r \in Request : Alt(t, r)
       \/ Interrupt(t) \/ Return(t)
       \/ \E i \in at[t] : Fail(t, i)
  \/ \E c \in Chan : Close(c)
  \/ Internal

Spec == Init /\ [][Next]_vars
=============================================================================
