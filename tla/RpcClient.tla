------------------------------ MODULE RpcClient ------------------------------
(***************************************************************************)
(* rpc/rpc.go: callers that share one connection to a search server.  A    *)
(* call that finds the connection shut down redials and tries once more;   *)
(* the generation keeps callers from redialing one after the other.        *)
(*                                                                         *)
(* conns is every connection ever dialed.  A connection that is lost goes  *)
(* unnoticed until its reader (input of the vendored package rpc) meets    *)
(* the end of it and marks it shut down.                                   *)
(***************************************************************************)
EXTENDS Integers, Sequences

CONSTANTS
  Callers,     \* goroutines that call Search and List
  MaxFaults    \* bound on dials that fail and connections lost or closed

VARIABLES
  mu,          \* who holds client.mu, or free
  cl, gen,     \* the connection (0 is nil) and its generation
  conns,       \* open, lost, shutdown or closed
  pc, try,     \* where a caller is, and its first or second try
  used,        \* the connection it got, and the generation of it
  outcome,     \* how its last call ended
  faults,      \* dials failed and connections lost or closed so far
  met          \* the callers whose call has seen a fault since it began

vars == <<mu, cl, gen, conns, pc, try, used, outcome, faults, met>>

free == "free"

ASSUME CallersAssumption == free \notin Callers

ASSUME MaxFaultsAssumption == MaxFaults \in Nat

TypeOK ==
  /\ mu \in Callers \cup {free}
  /\ cl \in Nat /\ gen \in Nat
  /\ conns \in Seq({"open", "lost", "shutdown", "closed"})
  /\ pc \in [Callers -> {"idle", "lock", "get", "send", "pending", "wait"}]
  /\ try \in [Callers -> {1, 2}]
  /\ used \in [Callers -> [cl : Nat, gen : Nat]]
  /\ outcome \in [Callers -> {"none", "reply", "failed", "ctx"}]
  /\ faults \in Nat /\ met \subseteq Callers

Init ==
  /\ mu = free /\ cl = 0 /\ gen = 0 /\ conns = <<>>
  /\ pc = [p \in Callers |-> "idle"] /\ try = [p \in Callers |-> 1]
  /\ used = [p \in Callers |-> [cl |-> 0, gen |-> 0]]
  /\ outcome = [p \in Callers |-> "none"]
  /\ faults = 0 /\ met = {}

GoTo(p, l) == pc' = [pc EXCEPT ![p] = l]

Return(p, how) == GoTo(p, "idle") /\ outcome' = [outcome EXCEPT ![p] = how]

Fault == faults < MaxFaults /\ faults' = faults + 1

Noticed(by) == met' = met \cup by

Dead(i) == conns[i] \in {"shutdown", "closed"}

Begin(p) ==
  /\ pc[p] = "idle"
  /\ GoTo(p, "lock")
  /\ try' = [try EXCEPT ![p] = 1]
  /\ met' = met \ {p}
  /\ outcome' = [outcome EXCEPT ![p] = "none"]
  /\ UNCHANGED <<mu, cl, gen, conns, used, faults>>

(***************************************************************************)
(* getRPCClient.  The first try asks for any generation but 0, the second  *)
(* for any but the one that failed.                                        *)
(***************************************************************************)
\* Asks for any generation both times (a mutation of staleGen).
staleGenAlwaysZero(p) == 0

staleGen(p) == IF try[p] = 1 THEN 0 ELSE used[p].gen

Lock(p) ==
  /\ pc[p] = "lock" /\ mu = free
  /\ mu' = p
  /\ GoTo(p, "get")
  /\ UNCHANGED <<cl, gen, conns, try, used, outcome, faults, met>>

\* Dials whatever the generation is (a mutation of mustDial).
mustDialAlways(p) == TRUE

mustDial(p) == staleGen(p) = gen

GetCurrent(p) ==
  /\ pc[p] = "get" /\ mu = p /\ ~mustDial(p)
  /\ used' = [used EXCEPT ![p] = [cl |-> cl, gen |-> gen]]
  /\ mu' = free
  /\ GoTo(p, "send")
  /\ UNCHANGED <<cl, gen, conns, try, outcome, faults, met>>

Dial(p) ==
  /\ pc[p] = "get" /\ mu = p /\ mustDial(p)
  /\ conns' = Append(conns, "open")
  /\ cl' = Len(conns) + 1
  /\ gen' = gen + 1
  /\ used' = [used EXCEPT ![p] = [cl |-> cl', gen |-> gen']]
  /\ mu' = free
  /\ GoTo(p, "send")
  /\ UNCHANGED <<try, outcome, faults, met>>

DialFails(p) ==
  /\ pc[p] = "get" /\ mu = p /\ mustDial(p)
  /\ Fault /\ Noticed({p})
  /\ used' = [used EXCEPT ![p] = [cl |-> 0, gen |-> gen]]
  /\ mu' = free
  /\ IF try[p] = 1 THEN GoTo(p, "wait") /\ UNCHANGED outcome ELSE Return(p, "failed")
  /\ UNCHANGED <<cl, gen, conns, try>>

(***************************************************************************)
(* rpc.Client.Call.  Only ErrShutdown on the first try leads to a second.  *)
(***************************************************************************)
Send(p) ==
  /\ pc[p] = "send"
  /\ IF ~Dead(used[p].cl) THEN GoTo(p, "pending") /\ UNCHANGED outcome
     ELSE IF try[p] = 1 THEN GoTo(p, "wait") /\ UNCHANGED outcome
     ELSE Return(p, "failed")
  /\ UNCHANGED <<mu, cl, gen, conns, try, used, faults, met>>

\* The write of the request meets the loss first.
WriteFails(p) ==
  /\ pc[p] = "send" /\ conns[used[p].cl] = "lost"
  /\ Noticed({p})
  /\ Return(p, "failed")
  /\ UNCHANGED <<mu, cl, gen, conns, try, used, faults>>

\* The server's Search or List ends, within its ten seconds, with a result or an error.
Reply(p) ==
  /\ pc[p] = "pending" /\ conns[used[p].cl] = "open"
  /\ Return(p, "reply")
  /\ UNCHANGED <<mu, cl, gen, conns, try, used, faults, met>>

\* The reader ended: with ErrShutdown only if the connection was being closed.
Terminated(p) ==
  /\ pc[p] = "pending" /\ Dead(used[p].cl)
  /\ \/ Return(p, "failed")
     \/ /\ conns[used[p].cl] = "closed" /\ try[p] = 1
        /\ GoTo(p, "wait") /\ UNCHANGED outcome
  /\ UNCHANGED <<mu, cl, gen, conns, try, used, faults, met>>

\* Starts over, as a loop around the first try would (a mutation of Retry).
RetryForever(p) ==
  /\ pc[p] = "wait"
  /\ GoTo(p, "lock")
  /\ UNCHANGED <<mu, cl, gen, conns, try, used, outcome, faults, met>>

\* time.After(100 * time.Millisecond)
Retry(p) ==
  /\ pc[p] = "wait"
  /\ GoTo(p, "lock")
  /\ try' = [try EXCEPT ![p] = 2]
  /\ UNCHANGED <<mu, cl, gen, conns, used, outcome, faults, met>>

\* ctx.Done() while the answer, or the time to try again, is waited for.
CtxDone(p) ==
  /\ pc[p] \in {"wait", "pending"}
  /\ Return(p, "ctx")
  /\ UNCHANGED <<mu, cl, gen, conns, try, used, faults, met>>

\* The network or the server goes away, and the reader of the connection sees it.
Lose(i) ==
  /\ conns[i] = "open"
  /\ Fault
  /\ conns' = [conns EXCEPT ![i] = "lost"]
  /\ UNCHANGED <<mu, cl, gen, pc, try, used, outcome, met>>

Notice(i) ==
  /\ conns[i] = "lost"
  /\ Noticed(Callers)
  /\ conns' = [conns EXCEPT ![i] = "shutdown"]
  /\ UNCHANGED <<mu, cl, gen, pc, try, used, outcome, faults>>

\* Close of the client, which does not take the lock.
Close ==
  /\ cl # 0 /\ ~Dead(cl)
  /\ Fault /\ Noticed(Callers)
  /\ conns' = [conns EXCEPT ![cl] = "closed"]
  /\ UNCHANGED <<mu, cl, gen, pc, try, used, outcome>>

CallerStep(p) ==
  \/ Begin(p) \/ Lock(p) \/ GetCurrent(p) \/ Dial(p) \/ DialFails(p)
  \/ Send(p) \/ WriteFails(p) \/ Reply(p) \/ Terminated(p) \/ Retry(p) \/ CtxDone(p)

Next ==
  \/ \E p \in Callers : CallerStep(p)
  \/ \E i \in DOMAIN conns : Lose(i) \/ Notice(i)
  \/ Close

(***************************************************************************)
(* A running goroutine goes on, and a mutex is not held up forever by      *)
(* others (Go hands a starved one over).  Of the network nothing is taken  *)
(* for granted: the CONNECT of a dial is answered without a deadline, and  *)
(* so are a request and the loss of a connection.                          *)
(***************************************************************************)
SendFails(p) == pc[p] = "send" /\ Dead(used[p].cl) /\ Send(p)

Fairness ==
  \A p \in Callers :
    /\ WF_vars(GetCurrent(p) \/ SendFails(p) \/ Terminated(p) \/ Retry(p))
    /\ SF_vars(Lock(p))

Spec == Init /\ [][Next]_vars /\ Fairness

(***************************************************************************)
(* Properties.                                                             *)
(***************************************************************************)
(***************************************************************************)
(* Why they hold.  A caller that is to try again for the current           *)
(* connection knows it to be dead.  One that holds an older connection has *)
(* noticed the end of every later one, which was dialed during its call.   *)
(***************************************************************************)
TryingAgain(p) == pc[p] = "wait" \/ (try[p] = 2 /\ pc[p] \in {"lock", "get"})

Calling(p) == pc[p] \in {"send", "pending"}

CallerInv(p) ==
  /\ pc[p] = "get" => mu = p
  /\ used[p].gen <= gen
  /\ Calling(p) => used[p].cl = used[p].gen /\ used[p].gen > 0
  /\ TryingAgain(p) /\ used[p].gen = gen => gen = 0 \/ Dead(gen)
  /\ TryingAgain(p) \/ Calling(p) =>
       \A i \in 1..gen : i > used[p].gen /\ Dead(i) => p \in met
  /\ pc[p] = "send" /\ try[p] = 2 /\ Dead(used[p].cl) => p \in met
  /\ pc[p] = "pending" /\ Dead(used[p].cl) => p \in met
  /\ outcome[p] = "failed" => p \in met

IInv ==
  /\ TypeOK
  /\ cl = Len(conns) /\ gen = Len(conns)
  /\ \A p \in Callers : CallerInv(p)

(***************************************************************************)
(* A connection is replaced only after it was shut down or closed, however *)
(* many callers found it so: "This is used to prevent concurrent redailing *)
(* on network failure" (getRPCClient).                                     *)
(***************************************************************************)
RedialsOnlyDead == [][cl' # cl => cl = 0 \/ Dead(cl)]_vars

(***************************************************************************)
(* A call fails only for a fault that was noticed after it began: what had *)
(* shut the connection before costs it a second try and no more (call).    *)
(***************************************************************************)
RetryHeals == \A p \in Callers : outcome[p] = "failed" => p \in met

\* p dials, writes its request or waits for the answer.
OnNetwork(p) ==
  \/ pc[p] = "get" /\ mustDial(p)
  \/ Calling(p) /\ ~Dead(used[p].cl)

(***************************************************************************)
(* Every call returns, with callers contending for the lock that is held   *)
(* while one of them dials, and whatever fails, unless the network keeps   *)
(* some caller for ever: one whose dial never ends keeps all the others    *)
(* (call, getRPCClient).                                                   *)
(***************************************************************************)
CallsReturn ==
  (\A q \in Callers : []<>~OnNetwork(q)) =>
    \A p \in Callers : pc[p] # "idle" ~> pc[p] = "idle"

=============================================================================
