------------------------------- MODULE CallOnce -------------------------------
(***************************************************************************)
(* ktl::call_once (ktl/call_once) on a multiprocessor with store buffers:  *)
(* several programs and interrupt handlers call it with the same flag, and *)
(* the function they pass initialises a word of memory with a plain store. *)
(*                                                                         *)
(* CheckStateStarted, CompareThenExchange and the like are faulty variants *)
(* of the definitions that follow them, used only to see that a property   *)
(* notices the fault.                                                      *)
(***************************************************************************)
EXTENDS StoreBuffers

ASSUME CallOnceAssumption == {"state", "data"} \subseteq Locations

(* once_flag::_state *)
Untouched == 0
Started == 1
Complete == 2

VARIABLE
  runs  \* history: how many times the function was called

onceVars == <<memory, buffer, pc, calls, runs>>

OnceInit ==
  /\ memory = [l \in Locations |-> 0]
  /\ buffer = [c \in Cpus |-> <<>>]
  /\ pc = [t \in Contexts |-> "idle"]
  /\ calls = 0 /\ runs = 0

At(t, label) == pc[t] = label /\ MayRun(t)

-----------------------------------------------------------------------------
Call(t) ==
  /\ At(t, "idle") /\ calls < MaxCalls
  /\ Goto(t, "check")
  /\ calls' = calls + 1
  /\ UNCHANGED <<memory, buffer, runs>>

CheckStateStarted(t) ==
  /\ At(t, "check")
  /\ Goto(t, IF Visible(CpuOf[t], "state") # Untouched THEN "returned" ELSE "exchange")
  /\ UNCHANGED <<memory, buffer, calls, runs>>

(* The first load: the call returns at once when the function has run. *)
CheckState(t) ==
  /\ At(t, "check")
  /\ Goto(t, IF Visible(CpuOf[t], "state") = Complete THEN "returned" ELSE "exchange")
  /\ UNCHANGED <<memory, buffer, calls, runs>>

CompareThenExchange(t) ==
  /\ At(t, "exchange")
  /\ IF Visible(CpuOf[t], "state") = Untouched
       THEN Store(CpuOf[t], "state", Started) /\ Goto(t, "run")
       ELSE Goto(t, "wait") /\ UNCHANGED <<memory, buffer>>
  /\ UNCHANGED <<calls, runs>>

CompareExchange(t) ==
  /\ At(t, "exchange")
  /\ LET first == memory["state"] = Untouched IN
       /\ Locked(CpuOf[t], "state", IF first THEN Started ELSE memory["state"])
       /\ Goto(t, IF first THEN "run" ELSE "wait")
  /\ UNCHANGED <<calls, runs>>

(* The function stores one more than what it finds.                         *)
RunFunction(t) ==
  /\ At(t, "run")
  /\ Store(CpuOf[t], "data", Visible(CpuOf[t], "data") + 1)
  /\ Goto(t, "publish")
  /\ runs' = runs + 1
  /\ UNCHANGED calls

PublishForgets(t) ==
  /\ At(t, "publish")
  /\ Goto(t, "returned")
  /\ UNCHANGED <<memory, buffer, calls, runs>>

(* A release store: a plain mov. *)
Publish(t) ==
  /\ At(t, "publish")
  /\ Store(CpuOf[t], "state", Complete)
  /\ Goto(t, "returned")
  /\ UNCHANGED <<calls, runs>>

(* One iteration of the loop that waits for the function to have run. *)
Wait(t) ==
  /\ At(t, "wait")
  /\ Goto(t, IF Visible(CpuOf[t], "state") = Complete THEN "returned" ELSE "wait")
  /\ UNCHANGED <<memory, buffer, calls, runs>>

(* The caller uses the data, and is done. *)
Finish(t) ==
  /\ At(t, "returned")
  /\ Goto(t, "idle")
  /\ UNCHANGED <<memory, buffer, calls, runs>>

OnceDrain(c) == Drain(c) /\ UNCHANGED <<pc, calls, runs>>

Step(t) ==
  \/ CheckState(t) \/ CompareExchange(t) \/ RunFunction(t)
  \/ Publish(t) \/ Wait(t) \/ Finish(t)

(* Everybody has returned, and nobody calls again. *)
OnceQuiet ==
  /\ Active = {} /\ \A c \in Cpus : buffer[c] = <<>>
  /\ UNCHANGED onceVars

OnceNext ==
  \/ \E t \in Contexts : Call(t) \/ Step(t)
  \/ \E c \in Cpus : OnceDrain(c)
  \/ OnceQuiet

OnceSpec == OnceInit /\ [][OnceNext]_onceVars

(* Processors keep executing the calls that are in progress, and stores     *)
(* reach memory; nobody has to make a call.                                 *)
OnceFairSpec ==
  /\ OnceSpec
  /\ \A t \in Contexts : WF_onceVars(Step(t))
  /\ \A c \in Cpus : WF_onceVars(OnceDrain(c))

-----------------------------------------------------------------------------
(* The flag is in one of its three states, everybody is at a known place,   *)
(* and a buffer holds stores.                                               *)
OnceTypeOK ==
  /\ memory \in [Locations -> Nat]
  /\ memory["state"] \in {Untouched, Started, Complete}
  /\ buffer \in [Cpus -> Seq(Entry)]
  /\ pc \in [Contexts ->
       {"idle", "check", "exchange", "run", "publish", "wait", "returned"}]
  /\ calls \in Nat /\ runs \in Nat

(* However many contexts call at a time, the function is called once.       *)
RunsOnce ==
  /\ runs <= 1
  /\ \A t, u \in Contexts :
       pc[t] \in {"run", "publish"} /\ pc[u] \in {"run", "publish"} => t = u

(* A context whose call has returned sees what the function stored, though  *)
(* the state may reach it out of another processor's buffer.                *)
InitialisedOnReturn ==
  \A t \in Contexts : pc[t] = "returned" => Visible(CpuOf[t], "data") = 1

(* A handler waits for what the context it has interrupted is running. *)
WaitsOnItself ==
  \E h \in Handlers, t \in Contexts :
    /\ pc[h] = "wait" /\ CpuOf[h] = CpuOf[t]
    /\ pc[t] \in {"run", "publish"}

(* Every call returns, unless an interrupt handler waits for the context    *)
(* it has interrupted.                                                      *)
CallReturnsUnlessWaitingOnItself ==
  \A t \in Contexts : pc[t] = "check" ~> pc[t] = "returned" \/ WaitsOnItself
=============================================================================
