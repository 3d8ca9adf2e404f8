------------------------------ MODULE MlService ------------------------------
(***************************************************************************)
(* The ML service (app/ml.py): the model in production, the artifact that  *)
(* the process keeps loaded, and the log of its inferences.                *)
(*                                                                         *)
(* GRANULARITY.  The process keeps the runtime in two module globals that  *)
(* nothing guards.  The event loop calls get_ml_runtime when it scores or  *)
(* answers /ml/health, and app/manager.py calls it in worker threads, so a *)
(* call is a sequence of steps between which the other callers may run.    *)
(* The runtime is an object whose model id is overwritten while it is in   *)
(* use: objects have an identity here.                                     *)
(*                                                                         *)
(* ABSTRACTED.  An artifact is the version that its bundle names; Nothing is  *)
(* a missing or an invalid one.  The estimator answers anything.  Nothing  *)
(* under src/ writes the registry or the artifacts: an operator does.      *)
(***************************************************************************)
EXTENDS Integers, FiniteSets

CONSTANTS
    Models,         \* rows of model_versions
    PathOf,         \* their model_path; PathOf[Nothing] is ML_MODEL_PATH
    VersionOf,      \* their version
    Versions,       \* what a bundle may name
    Shipped,        \* the version first at each path
    Callers,        \* who may be in get_ml_runtime: the loop, and threads
    Loop,           \* the caller on the event loop
    MaxSwaps,       \* bounds the promotions and the replaced artifacts
    RequestIds,     \* request_id is unique in inference_logs
    Outputs,        \* what the estimator and reason_codes may answer
    Now,            \* created_at of what is logged
    Nothing

ASSUME LoopAssumption == Loop \in Callers /\ IsFiniteSet(Callers)

VARIABLES
    production,     \* the active production model, or Nothing
    bundle,         \* the artifact at each path
    object,         \* the runtimes that are in use, each in a place
    runtime,        \* _runtime: the place of one, or 0
    loadedPath,     \* _runtime_path
    caller,         \* the calls of get_ml_runtime in progress
    inference,      \* inference_logs
    swaps,          \* HISTORY: promotions and replacements so far
    replaced,       \* HISTORY: paths whose artifact was replaced in place
    raced           \* HISTORY: a call overlapped another one that loads

mlVars == <<production, bundle, object, runtime, loadedPath, caller,
            inference, swaps, replaced, raced>>

Paths == {PathOf[m] : m \in Models \cup {Nothing}}
Places == 1..(Cardinality(Callers) + 1)
ASSUME ShippedAssumption == Shipped \in [Paths -> Versions \cup {Nothing}]

NoRuntime == [version |-> Nothing, model |-> Nothing]
NotCalling == [pc |-> "idle", path |-> Nothing, model |-> Nothing, object |-> 0]

MlTypeOK ==
    /\ production \in Models \cup {Nothing}
    /\ bundle \in [Paths -> Versions \cup {Nothing}]
    /\ object \in [Places -> [version : Versions \cup {Nothing},
                              model : Models \cup {Nothing}]]
    /\ runtime \in Places \cup {0}
    /\ caller \in [Callers -> [pc : {"idle", "resolved", "loading", "stored",
                                     "returning", "using", "failed"},
                               path : Paths \cup {Nothing},
                               model : Models \cup {Nothing},
                               object : Places \cup {0}]]
    /\ \A row \in inference : row.model \in Models \cup {Nothing}

MlInit ==
    /\ production \in Models
    /\ bundle = Shipped
    /\ object = [i \in Places |-> NoRuntime] /\ runtime = 0 /\ loadedPath = Nothing
    /\ caller = [x \in Callers |-> NotCalling]
    /\ inference = {}
    /\ swaps = 0 /\ replaced = {} /\ raced = FALSE

-----------------------------------------------------------------------------
(* get_ml_runtime                                                          *)

Goes(x, pc) == caller' = [caller EXCEPT ![x].pc = pc]
OthersAt(x, pcs) == \E y \in Callers \ {x} : caller[y].pc \in pcs

(* resolve_model_source.                                                   *)
Resolve(x) ==
    /\ caller[x].pc = "idle"
    /\ caller' = [caller EXCEPT ![x] = [pc |-> "resolved", path |-> PathOf[production],
                                        model |-> production, object |-> 0]]
    /\ raced' = (raced \/ OthersAt(x, {"loading", "stored"}))
    /\ UNCHANGED <<production, bundle, object, runtime, loadedPath, inference,
                   swaps, replaced>>

Stale(x) == runtime = 0 \/ loadedPath # caller[x].path

(* MUTANT: a loaded runtime is kept whatever its path.                     *)
CheckAnyPath(x) ==
    /\ caller[x].pc = "resolved"
    /\ IF runtime = 0
       THEN /\ Goes(x, "loading") /\ UNCHANGED object
            /\ raced' = (raced \/ OthersAt(x, {"resolved", "loading", "stored", "returning"}))
       ELSE /\ Goes(x, "returning") /\ UNCHANGED raced
            /\ object' = [object EXCEPT ![runtime].model = caller[x].model]
    /\ UNCHANGED <<production, bundle, runtime, loadedPath, inference, swaps, replaced>>

(* The loaded runtime is kept while its path is the production model's,    *)
(* and takes that model's id.                                              *)
Check(x) ==
    /\ caller[x].pc = "resolved"
    /\ IF Stale(x)
       THEN /\ Goes(x, "loading") /\ UNCHANGED object
            /\ raced' = (raced \/ OthersAt(x, {"resolved", "loading", "stored", "returning"}))
       ELSE /\ Goes(x, "returning") /\ UNCHANGED raced
            /\ object' = [object EXCEPT ![runtime].model = caller[x].model]
    /\ UNCHANGED <<production, bundle, runtime, loadedPath, inference, swaps, replaced>>

(* An object that nobody refers to any more is collected.                  *)
InUse(i) == \E y \in Callers : caller[y].object = i
FreePlace == CHOOSE i \in Places : i # runtime /\ ~InUse(i)

(* IsolationForestRuntime.load, and the first of the two assignments.      *)
Load(x) ==
    /\ caller[x].pc = "loading"
    /\ IF bundle[caller[x].path] = Nothing
       THEN /\ caller' = [caller EXCEPT ![x] = [NotCalling EXCEPT !.pc = "failed"]]
            /\ UNCHANGED <<object, runtime>>
       ELSE /\ runtime' = FreePlace
            /\ object' = [i \in Places |->
                 IF i = FreePlace THEN [version |-> bundle[caller[x].path],
                                        model |-> caller[x].model]
                 ELSE IF InUse(i) THEN object[i] ELSE NoRuntime]
            /\ Goes(x, "stored")
    /\ UNCHANGED <<production, bundle, loadedPath, inference, swaps, replaced, raced>>

StorePath(x) ==
    /\ caller[x].pc = "stored"
    /\ loadedPath' = caller[x].path
    /\ Goes(x, "returning")
    /\ UNCHANGED <<production, bundle, object, runtime, inference, swaps, replaced, raced>>

(* The global is read again: it may be another caller's by now.            *)
Return(x) ==
    /\ caller[x].pc = "returning"
    /\ caller' = [caller EXCEPT ![x] = [NotCalling EXCEPT !.pc = "using",
                                                           !.object = runtime]]
    /\ UNCHANGED <<production, bundle, object, runtime, loadedPath, inference,
                   swaps, replaced, raced>>

GetRuntime(x) == Check(x) \/ Load(x) \/ StorePath(x) \/ Return(x)

Done(x) == caller' = [caller EXCEPT ![x] = NotCalling]

-----------------------------------------------------------------------------
(* THE ENDPOINTS, on the loop                                              *)

Logged == {row.id : row \in inference}

(* score: the artifact's answer is logged with the runtime's version and   *)
(* its model id, as the object has them now.                               *)
Score(r, out) ==
    LET o == object[caller[Loop].object] IN
    /\ caller[Loop].pc = "using" /\ r \notin Logged
    /\ inference' = inference \cup
         {[id |-> r, at |-> Now, status |-> "ready", model |-> o.model,
           version |-> o.version, anomaly |-> out.anomaly, reasons |-> out.reasons]}
    /\ Done(Loop)
    /\ UNCHANGED <<production, bundle, object, runtime, loadedPath, swaps, replaced, raced>>

(* score, when no artifact can be loaded or the one that is raises: logged *)
(* as an error, answered 503.                                              *)
ScoreUnavailable(r) ==
    /\ caller[Loop].pc \in {"using", "failed"} /\ r \notin Logged
    /\ inference' = inference \cup
         {[id |-> r, at |-> Now, status |-> "error", model |-> Nothing,
           version |-> Nothing, anomaly |-> FALSE, reasons |-> {}]}
    /\ Done(Loop)
    /\ UNCHANGED <<production, bundle, object, runtime, loadedPath, swaps, replaced, raced>>

(* ml_health; and score for a request_id that has a row already: its insert*)
(* fails, and the answer is a 500.                                         *)
UsesRuntimeOnly ==
    /\ caller[Loop].pc \in {"using", "failed"}
    /\ Done(Loop)
    /\ UNCHANGED <<production, bundle, object, runtime, loadedPath, inference,
                   swaps, replaced, raced>>

-----------------------------------------------------------------------------
(* EXTERNAL: the registry and the artifacts                                *)

Promote(m) ==
    /\ m # production /\ swaps < MaxSwaps
    /\ production' = m /\ swaps' = swaps + 1
    /\ UNCHANGED <<bundle, object, runtime, loadedPath, caller, inference, replaced, raced>>
Replace(p, v) ==
    /\ v # bundle[p] /\ swaps < MaxSwaps
    /\ bundle' = [bundle EXCEPT ![p] = v] /\ swaps' = swaps + 1
    /\ replaced' = replaced \cup {p}
    /\ UNCHANGED <<production, object, runtime, loadedPath, caller, inference, raced>>

(* What the loop and the operator do to the service.                       *)
MlNext ==
    \/ Resolve(Loop) \/ GetRuntime(Loop) \/ UsesRuntimeOnly
    \/ \E r \in RequestIds, out \in Outputs : Score(r, out)
    \/ \E r \in RequestIds : ScoreUnavailable(r)
    \/ \E m \in Models \cup {Nothing} : Promote(m)
    \/ \E p \in Paths, v \in Versions \cup {Nothing} : Replace(p, v)

-----------------------------------------------------------------------------
(* An inference row names one model: the version that scored is the one at *)
(* the path of the model that the row points to, unless that artifact was  *)
(* replaced in place, or calls of get_ml_runtime overlapped while one of   *)
(* them loaded.  The facade's worker threads make such overlaps possible.  *)
LogNamesOneModel ==
    \A row \in inference :
        row.status = "ready" /\ PathOf[row.model] \notin replaced /\ ~raced =>
            row.version = bundle[PathOf[row.model]]
(* Why it holds.  Until calls overlap, a caller loads alone; the path that *)
(* is kept is the one of the runtime's model; and every runtime in use is  *)
(* the artifact of its model.                                              *)
Calling == {"resolved", "loading", "stored", "returning"}
CallsAreCoherent ==
    \A x \in Callers :
        /\ caller[x].pc \in Calling => caller[x].path = PathOf[caller[x].model]
        /\ caller[x].pc \in {"stored", "returning"} => runtime # 0
        /\ caller[x].pc = "using" <=> caller[x].object # 0
LoadsAlone ==
    \A x, y \in Callers :
        x # y /\ caller[y].pc \in {"loading", "stored"} => caller[x].pc \notin Calling
PathIsTheRuntimes ==
    /\ runtime # 0 /\ (\A x \in Callers : caller[x].pc # "stored") =>
         loadedPath = PathOf[object[runtime].model]
    /\ \A x \in Callers :
         caller[x].pc = "stored" => PathOf[object[runtime].model] = caller[x].path
Live(i) == i # 0 /\ (i = runtime \/ InUse(i))
RuntimesAreTrue ==
    \A i \in Places :
        Live(i) /\ PathOf[object[i].model] \notin replaced =>
            object[i].version = bundle[PathOf[object[i].model]]
MlIndInv ==
    /\ MlTypeOK /\ CallsAreCoherent /\ LogNamesOneModel
    /\ ~raced => LoadsAlone /\ PathIsTheRuntimes /\ RuntimesAreTrue
=============================================================================
