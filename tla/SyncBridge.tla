----------------------------- MODULE SyncBridge -----------------------------
(***************************************************************************)
(* Runtime::sync_inbound() of the conformance bridge: the thread that      *)
(* serves a call and the worker thread that drives the router share        *)
(* _router_mutex, two atomic flags and the router's one sync-complete      *)
(* callback.  The router's own sync is SyncContract, which PropagationSync *)
(* implements; its steps are taken by the worker under the mutex.          *)
(***************************************************************************)
EXTENDS SyncContract

CONSTANT MaxCalls           \* bound: calls of sync_inbound()

ASSUME BridgeAssumption == MaxCalls \in Nat

VARIABLES
    mutex,      \* who holds _router_mutex across steps: "free" or "worker"
    pending,    \* _sync_request_pending
    started,    \* _sync_request_started
    callback,   \* the call whose callback is registered, 0 for none
    call,       \* the current or last call; _sync_call_mutex admits one
    pc,         \* where that call is
    attach,     \* its attach_to_active_sync
    late,       \* whether its deadline has passed
    state,      \* its copy of the router's sync state
    completed,  \* whether its callback has been called
    result,     \* what it returns
    taken,      \* history: a request was begun during it, or it attached
    fresh       \* history: taken was true when it last read the state

workerVars == <<mutex, pending, started>>
callVars == <<callback, call, pc, attach, late, state, completed, result,
              taken, fresh>>
bridgeVars == <<syncContractVars, workerVars, callVars>>

BridgeTypeOK ==
    /\ phase \in Phase
    /\ heard \in 0..1
    /\ mutex \in {"free", "worker"}
    /\ pending \in BOOLEAN
    /\ started \in BOOLEAN
    /\ callback \in 0..MaxCalls
    /\ call \in 0..MaxCalls
    /\ pc \in {"outside", "entered", "armed", "loop", "read", "checked", "done"}
    /\ attach \in BOOLEAN
    /\ late \in BOOLEAN
    /\ state \in Phase
    /\ completed \in BOOLEAN
    /\ result \in {"none", "complete", "failed", "timeout"}
    /\ taken \in BOOLEAN
    /\ fresh \in BOOLEAN

BridgeInit ==
    /\ SyncContractInit
    /\ mutex = "free"
    /\ pending = FALSE
    /\ started = FALSE
    /\ callback = 0
    /\ call = 0
    /\ pc = "outside"
    /\ attach = FALSE
    /\ late = FALSE
    /\ state = "idle"
    /\ completed = FALSE
    /\ result = "none"
    /\ taken = FALSE
    /\ fresh = FALSE

-----------------------------------------------------------------------------
(* The worker's pass.                                                      *)

BeginUnlessBusy == IF phase = "busy" THEN UNCHANGED syncContractVars ELSE Begin

(* The request is made under the mutex; the flag is set before the mutex   *)
(* is released, but the serving thread reads it without the mutex.         *)
WorkerTakesRequest ==
    /\ mutex = "free"
    /\ pending
    /\ pending' = FALSE
    /\ BeginUnlessBusy
    /\ taken' = TRUE
    /\ mutex' = "worker"
    /\ UNCHANGED <<started, callback, call, pc, attach, late, state, completed,
                   result, fresh>>

(* The request throws: the worker logs it and starts its next pass.        *)
WorkerThrows ==
    /\ mutex = "free"
    /\ pending
    /\ pending' = FALSE
    /\ BeginUnlessBusy
    /\ taken' = TRUE
    /\ UNCHANGED <<mutex, started, callback, call, pc, attach, late, state,
                   completed, result, fresh>>

WorkerMarksStarted ==
    /\ mutex = "worker"
    /\ started' = TRUE
    /\ mutex' = "free"
    /\ UNCHANGED <<syncContractVars, pending, callVars>>

(* The router's sync goes on; a completion calls the callback.             *)
RouterStep ==
    /\ mutex = "free"
    /\ Fail \/ Complete \/ Resume
    /\ completed' = (completed \/ (heard' > heard /\ callback = call /\ call > 0))
    /\ UNCHANGED <<workerVars, callback, call, pc, attach, late, state, result,
                   taken, fresh>>

-----------------------------------------------------------------------------
(* The serving thread.                                                     *)

(* Mutant: the flag of the last request is not reset.                      *)
ArmKeepingFlag ==
    /\ pc = "entered"
    /\ IF attach THEN started' = TRUE /\ pc' = "loop"
                 ELSE pc' = "armed" /\ UNCHANGED started
    /\ UNCHANGED <<syncContractVars, mutex, pending, callback, call, attach,
                   late, state, completed, result, taken, fresh>>

(* Under the mutex: is a sync active?  The callback is registered.         *)
Enter ==
    /\ pc = "outside"
    /\ call < MaxCalls
    /\ mutex = "free"
    /\ attach' = (phase = "busy")
    /\ call' = call + 1
    /\ callback' = call + 1
    /\ completed' = FALSE
    /\ late' = FALSE
    /\ result' = "none"
    /\ taken' = (phase = "busy")
    /\ fresh' = FALSE
    /\ pc' = "entered"
    /\ UNCHANGED <<syncContractVars, workerVars, state>>

(* An active sync is only observed; otherwise the flag of the worker is    *)
(* reset, and then the request is left for the worker.                     *)
Arm ==
    /\ pc = "entered"
    /\ IF attach THEN started' = TRUE /\ pc' = "loop"
                 ELSE started' = FALSE /\ pc' = "armed"
    /\ UNCHANGED <<syncContractVars, mutex, pending, callback, call, attach,
                   late, state, completed, result, taken, fresh>>

Ask ==
    /\ pc = "armed"
    /\ pending' = TRUE
    /\ pc' = "loop"
    /\ UNCHANGED <<syncContractVars, mutex, started, callback, call, attach,
                   late, state, completed, result, taken, fresh>>

ReadState ==
    /\ pc = "loop"
    /\ ~late
    /\ mutex = "free"
    /\ state' = phase
    /\ fresh' = taken
    /\ pc' = "read"
    /\ UNCHANGED <<syncContractVars, workerVars, callback, call, attach, late,
                   completed, result, taken>>

Conclude(r) == pc' = "done" /\ result' = r

LookAtCallback ==
    /\ pc = "read"
    /\ IF completed THEN Conclude("complete")
                    ELSE pc' = "checked" /\ UNCHANGED result
    /\ UNCHANGED <<syncContractVars, workerVars, callback, call, attach, late,
                   state, completed, taken, fresh>>

LookAtState ==
    /\ pc = "checked"
    /\ IF started /\ state \in {"complete", "failed"} THEN Conclude(state)
       ELSE pc' = "loop" /\ UNCHANGED result
    /\ UNCHANGED <<syncContractVars, workerVars, callback, call, attach, late,
                   state, completed, taken, fresh>>

DeadlinePasses ==
    /\ pc # "outside"
    /\ ~late
    /\ late' = TRUE
    /\ UNCHANGED <<syncContractVars, workerVars, callback, call, pc, attach,
                   state, completed, result, taken, fresh>>

(* Mutant: an active sync is waited for however long it takes.             *)
TimeOutUnlessActive ==
    /\ pc = "loop"
    /\ late
    /\ phase # "busy"
    /\ Conclude("timeout")
    /\ UNCHANGED <<syncContractVars, workerVars, callback, call, attach, late,
                   state, completed, taken, fresh>>

TimeOut ==
    /\ pc = "loop"
    /\ late
    /\ Conclude("timeout")
    /\ UNCHANGED <<syncContractVars, workerVars, callback, call, attach, late,
                   state, completed, taken, fresh>>

(* Mutant: a call that times out leaves its callback behind.               *)
ReturnLeavingCallback ==
    /\ pc = "done"
    /\ mutex = "free"
    /\ callback' = IF result = "timeout" THEN callback ELSE 0
    /\ started' = IF result = "timeout" THEN started ELSE FALSE
    /\ pc' = "outside"
    /\ UNCHANGED <<syncContractVars, mutex, pending, call, attach, late, state,
                   completed, result, taken, fresh>>

(* finish(), under the mutex.                                              *)
Return ==
    /\ pc = "done"
    /\ mutex = "free"
    /\ callback' = 0
    /\ started' = IF result = "timeout" THEN started ELSE FALSE
    /\ pc' = "outside"
    /\ UNCHANGED <<syncContractVars, mutex, pending, call, attach, late, state,
                   completed, result, taken, fresh>>

Serve ==
    Arm \/ Ask \/ ReadState \/ LookAtCallback \/ LookAtState \/ TimeOut \/ Return

Work == WorkerTakesRequest \/ WorkerThrows \/ WorkerMarksStarted

BridgeNext == Work \/ RouterStep \/ Enter \/ Serve \/ DeadlinePasses

BridgeSafeSpec == BridgeInit /\ [][BridgeNext]_bridgeVars

(* Both threads run, and time passes.                                      *)
BridgeSpec ==
    /\ BridgeSafeSpec
    /\ WF_bridgeVars(Serve)
    /\ WF_bridgeVars(Work)
    /\ WF_bridgeVars(DeadlinePasses)

-----------------------------------------------------------------------------
(* Properties.                                                             *)

(* The callback captures variables of the call that registered it: it is   *)
(* gone, and no completion can reach it, once that call has returned.      *)
CallbackIsOfThisCall ==
    callback # 0 => callback = call /\ pc # "outside"

(* A call that sees the worker's flag knows that a request was begun since *)
(* it entered, or that it attached to an active sync: the flag of an       *)
(* earlier request, or of one the worker is just making, is not mistaken.  *)
StartedIsOurs == started /\ pc \in {"armed", "loop", "read", "checked"} => taken

(* Every call returns: neither a sync that ends without the callback, nor  *)
(* a request the worker never finishes, nor the mutex keeps it.            *)
CallReturns == pc # "outside" ~> pc = "outside"

(* What they rest on: a worker that holds the mutex has begun a request    *)
(* since the call entered.                                                 *)
HeldMeansTaken == mutex = "worker" => taken

AttachedMeansTaken == attach => taken

BridgeInv ==
    /\ BridgeTypeOK
    /\ CallbackIsOfThisCall
    /\ StartedIsOurs
    /\ HeldMeansTaken
    /\ AttachedMeansTaken

(* Documented expectations the code does not meet.                         *)

(* "Ignore a previous terminal router state until the worker has actually  *)
(* started this request": the state a result is taken from was read after  *)
(* that.                                                                   *)
ResultIsOfThisSync ==
    pc = "done" /\ result \in {"complete", "failed"} => completed \/ fresh

(* "Observe that same operation instead of starting a second request": no  *)
(* request is left for the worker while a sync is active.                  *)
NoSecondRequest == [][pending' /\ ~pending => phase # "busy"]_bridgeVars
=============================================================================
