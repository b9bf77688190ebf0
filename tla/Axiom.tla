------------------------------- MODULE Axiom -------------------------------
(***************************************************************************)
(* AXIOM, the supervision of the agent: the chain of its versions in the   *)
(* store (core/axiom.rs), and the pass that measures the active version,   *)
(* builds a candidate, measures it and promotes or rejects it              *)
(* (axiom-core/src/pipeline.ts, evaluate.ts, lib/axiom/runner.ts).  While  *)
(* a pass runs, the user may stop it, end the agent run it has in flight,  *)
(* promote, retire and roll back versions (screens/Axiom.tsx), and the     *)
(* webview, in which all of it runs, may be lost.                          *)
(*                                                                         *)
(* A version is its number in the chain and is its own configuration; 0 is *)
(* the built-in one.  One suite, one model and one number of repeats: the  *)
(* others do not meet.                                                     *)
(***************************************************************************)
EXTENDS Naturals

CONSTANTS
    MaxVersions,  \* versions ever built (bound)
    Attempts,     \* tasks of the suite times repeats
    MaxPasses     \* passes ever begun (bound)

ASSUME AxiomAssumption ==
    MaxVersions \in Nat /\ Attempts \in Nat \ {0} /\ MaxPasses \in Nat

VARIABLES
    version,   \* axiom_versions
    decided,   \* axiom_decisions, by candidate
    results,   \* axiom_suite_results, by the version they are keyed under
    audits,    \* rows of axiom_audits
    pass,      \* the pass in progress
    stop,      \* its abort signal
    writing,   \* rows of axiom_audits on their way to the store
    roll,      \* the rollback in progress
    byHand,    \* history: the versions the user promoted
    passes,    \* how many passes were begun
    lost       \* history: passes whose row was lost with the webview, or could not be written

store == <<version, decided, results, audits>>
history == <<byHand, passes, lost>>
vars == <<store, pass, stop, writing, roll, history>>

Builtin == 0

Versions == 1 .. MaxVersions

Configs == {Builtin} \cup Versions

State == {"none", "candidate", "active", "rejected", "retired"}

Version == [state : State, parent : Configs, linked : BOOLEAN]

NoVersion == [state |-> "none", parent |-> Builtin, linked |-> FALSE]

\* config: what was run.  cut: some attempt was stopped by the user.
Result == [config : Configs, attempts : 0 .. Attempts, cut : BOOLEAN]

Steps == {"idle", "config", "version", "lookup", "consent", "next", "mkdir", "attempt", "store",
          "design", "put", "decide", "link", "verdict", "retire", "ended"}

\* side: which of the two is being measured.
Pass == [at : Steps, config : Configs, base : Configs, cand : Configs, side : {"base", "cand"},
         done : 0 .. Attempts, cut : BOOLEAN, severed : BOOLEAN, dir : BOOLEAN, aborted : BOOLEAN,
         promote : BOOLEAN]

NoPass == [at |-> "idle", config |-> Builtin, base |-> Builtin, cand |-> Builtin, side |-> "base",
           done |-> 0, cut |-> FALSE, severed |-> FALSE, dir |-> FALSE, aborted |-> FALSE,
           promote |-> FALSE]

Rollback == [at : {"idle", "parent", "retire", "restore"}, from : Configs, to : Configs]

NoRollback == [at |-> "idle", from |-> Builtin, to |-> Builtin]

Init ==
    /\ version = [v \in Versions |-> NoVersion]
    /\ decided = [v \in Versions |-> "none"]
    /\ results = [c \in Configs |-> {}]
    /\ audits = 0
    /\ pass = NoPass /\ stop = FALSE /\ writing = 0
    /\ roll = NoRollback
    /\ byHand = {} /\ passes = 0 /\ lost = 0

---------------------------------------------------------------------------
(* The store's commands. *)

Has(v) == v \in Versions /\ version[v].state # "none"

ActiveOnes == {v \in Versions : version[v].state = "active"}

\* axiom_active_config: the active version, or the built-in configuration.
Active == IF ActiveOnes = {} THEN Builtin ELSE CHOOSE v \in ActiveOnes : TRUE

\* set_state: a promotion retires the incumbent in the same transaction.
Moved(v, state) ==
    [u \in Versions |-> CASE u = v -> [version[u] EXCEPT !.state = state]
                          [] u # v /\ state = "active" /\ version[u].state = "active" ->
                                 [version[u] EXCEPT !.state = "retired"]
                          [] OTHER -> version[u]]

---------------------------------------------------------------------------
(* The pass, from await to await. *)

Running == pass.at # "idle"

At(step) == pass.at = step

Begin ==
    /\ ~ Running /\ passes < MaxPasses
    /\ pass' = [NoPass EXCEPT !.at = "config"]
    /\ stop' = FALSE
    /\ passes' = passes + 1
    /\ UNCHANGED <<store, writing, roll, byHand, lost>>

ReadConfig ==
    /\ At("config") /\ pass' = [pass EXCEPT !.at = "version", !.config = Active]
    /\ UNCHANGED <<store, stop, writing, roll, history>>

ReadVersion ==
    /\ At("version") /\ pass' = [pass EXCEPT !.at = "lookup", !.base = Active]
    /\ UNCHANGED <<store, stop, writing, roll, history>>

\* The version that is measured, and the configuration that is run for it.
Measured == IF pass.side = "base" THEN pass.base ELSE pass.cand

RunAs == IF pass.side = "base" THEN pass.config ELSE pass.cand

AfterMeasuring == IF pass.side = "base" THEN "design" ELSE "decide"

\* benchmark: a stored result is used again, without asking and without running.
LookUp ==
    /\ At("lookup")
    /\ pass' = [pass EXCEPT !.at = IF results[Measured] # {} THEN AfterMeasuring ELSE "consent"]
    /\ UNCHANGED <<store, stop, writing, roll, history>>

\* authorizePaidRun: the user is asked before the first attempt; a refusal ends the pass.
Consent ==
    /\ At("consent")
    /\ \/ pass' = [pass EXCEPT !.at = "next", !.done = 0, !.cut = FALSE]
       \/ pass' = [pass EXCEPT !.at = "ended"]
    /\ UNCHANGED <<store, stop, writing, roll, history>>

\* (Mutant: one attempt more than the suite has.)
NextAttemptPast ==
    /\ At("next")
    /\ pass' = [pass EXCEPT !.severed = FALSE,
                           !.at = CASE pass.done > Attempts -> "store"
                                    [] pass.done <= Attempts -> IF pass.dir THEN "attempt" ELSE "mkdir"]
    /\ UNCHANGED <<store, stop, writing, roll, history>>

\* (Mutant: a candidate whose measurement was stopped is judged.)
NextAttemptJudged ==
    /\ At("next")
    /\ \/ pass.done = Attempts /\ pass' = [pass EXCEPT !.at = "store"]
       \/ pass.done < Attempts /\ stop /\ pass' = [pass EXCEPT !.aborted = TRUE, !.at = AfterMeasuring]
       \/ pass.done < Attempts /\ ~ stop
          /\ pass' = [pass EXCEPT !.severed = FALSE, !.at = IF pass.dir THEN "attempt" ELSE "mkdir"]
    /\ UNCHANGED <<store, stop, writing, roll, history>>

\* evaluateSuite's loops: all done, stopped, or the next attempt.  The first waits for its directory.
NextAttempt ==
    /\ At("next")
    /\ \/ pass.done = Attempts /\ pass' = [pass EXCEPT !.at = "store"]
       \/ pass.done < Attempts /\ stop
          /\ pass' = [pass EXCEPT !.aborted = TRUE,
                                  !.at = IF pass.side = "base" THEN "design" ELSE "ended"]
       \/ pass.done < Attempts /\ ~ stop
          /\ pass' = [pass EXCEPT !.severed = FALSE, !.at = IF pass.dir THEN "attempt" ELSE "mkdir"]
    /\ UNCHANGED <<store, stop, writing, roll, history>>

\* The signal is listened to only from here on.
MakeDir ==
    /\ At("mkdir") /\ pass' = [pass EXCEPT !.at = "attempt", !.dir = TRUE]
    /\ UNCHANGED <<store, stop, writing, roll, history>>

\* (Mutant: a run that was stopped never settles.)
AttemptEndsUnlessStopped ==
    /\ At("attempt") /\ ~ pass.severed
    /\ pass' = [pass EXCEPT !.at = "next", !.done = @ + 1]
    /\ UNCHANGED <<store, stop, writing, roll, history>>

\* The runner returns a trace, of a stopped run, too.
AttemptEnds ==
    /\ At("attempt")
    /\ pass' = [pass EXCEPT !.at = "next", !.done = @ + 1, !.cut = @ \/ pass.severed]
    /\ UNCHANGED <<store, stop, writing, roll, history>>

\* putSuiteResult.
Store ==
    /\ At("store")
    /\ results' = [results EXCEPT ![Measured] =
                      @ \cup {[config |-> RunAs, attempts |-> pass.done, cut |-> pass.cut]}]
    /\ pass' = [pass EXCEPT !.at = AfterMeasuring]
    /\ UNCHANGED <<version, decided, audits, stop, writing, roll, history>>

\* The findings, then nothing to put to the test, or one proposal that can be built.
Design ==
    /\ At("design")
    /\ \/ pass' = [pass EXCEPT !.at = "ended"]
       \/ ~ pass.aborted /\ pass' = [pass EXCEPT !.at = "put"]
    /\ UNCHANGED <<store, stop, writing, roll, history>>

\* put_version under an id that is not taken: a candidate whose parent is the baseline.
Put ==
    /\ At("put")
    /\ \E v \in Versions :
        /\ ~ Has(v) /\ \A u \in Versions : u < v => Has(u)
        /\ version' = [version EXCEPT ![v] = [NoVersion EXCEPT !.state = "candidate", !.parent = pass.base]]
        /\ pass' = [pass EXCEPT !.at = "lookup", !.side = "cand", !.cand = v]
    /\ UNCHANGED <<decided, results, audits, stop, writing, roll, history>>

\* The guardian and the four roles judge (either way), and putDecision.
Decide ==
    /\ At("decide")
    /\ \E promote \in BOOLEAN :
        /\ decided' = [decided EXCEPT ![pass.cand] = IF promote THEN "promote" ELSE "reject"]
        /\ pass' = [pass EXCEPT !.at = "link", !.promote = promote]
    /\ UNCHANGED <<version, results, audits, stop, writing, roll, history>>

LinkDecision ==
    /\ At("link")
    /\ version' = [version EXCEPT ![pass.cand].linked = TRUE]
    /\ pass' = [pass EXCEPT !.at = "verdict"]
    /\ UNCHANGED <<decided, results, audits, stop, writing, roll, history>>

\* (Mutant: the version is moved before its decision is written.)
VerdictFirst ==
    /\ At("decide")
    /\ \E promote \in BOOLEAN :
        /\ version' = Moved(pass.cand, IF promote THEN "active" ELSE "rejected")
        /\ pass' = [pass EXCEPT !.promote = promote, !.at = "ended"]
    /\ UNCHANGED <<decided, results, audits, stop, writing, roll, history>>

Verdict ==
    /\ At("verdict")
    /\ version' = Moved(pass.cand, IF pass.promote THEN "active" ELSE "rejected")
    /\ pass' = [pass EXCEPT !.at = IF pass.promote /\ pass.base # Builtin THEN "retire" ELSE "ended"]
    /\ UNCHANGED <<decided, results, audits, stop, writing, roll, history>>

RetireBaseline ==
    /\ At("retire")
    /\ version' = Moved(pass.base, "retired")
    /\ pass' = [pass EXCEPT !.at = "ended"]
    /\ UNCHANGED <<decided, results, audits, stop, writing, roll, history>>

\* Any step may throw, but for an attempt that was stopped.
Fail ==
    /\ pass.at \notin {"idle", "ended"} /\ ~ (At("attempt") /\ pass.severed)
    /\ pass' = [pass EXCEPT !.at = "ended"]
    /\ UNCHANGED <<store, stop, writing, roll, history>>

\* (Mutant: a pass that was stopped leaves no row.)
FinallyUnlessStopped ==
    /\ At("ended") /\ pass' = NoPass
    /\ writing' = (IF stop THEN writing ELSE writing + 1)
    /\ UNCHANGED <<store, stop, roll, history>>

\* Whatever the pass has become: the screen is free for the next one, and the row is sent.
Finally ==
    /\ At("ended") /\ pass' = NoPass
    /\ writing' = writing + 1
    /\ UNCHANGED <<store, stop, roll, history>>

\* axiomPutAudit: a write that fails is let go.
Audit ==
    /\ writing > 0 /\ writing' = writing - 1
    /\ \/ audits' = audits + 1 /\ UNCHANGED lost
       \/ lost' = lost + 1 /\ UNCHANGED audits
    /\ UNCHANGED <<version, decided, results, pass, stop, roll, byHand, passes>>

---------------------------------------------------------------------------
(* The user. *)

\* Stop on the AXIOM screen: it reaches the run in flight, if that listens already.
Stop ==
    /\ Running /\ ~ At("ended") /\ ~ stop /\ stop' = TRUE
    /\ pass' = [pass EXCEPT !.severed = @ \/ At("attempt")]
    /\ UNCHANGED <<store, writing, roll, history>>

\* Stop on the list of runs: it reaches the run in flight alone.
StopRun ==
    /\ At("attempt") /\ ~ pass.severed
    /\ pass' = [pass EXCEPT !.severed = TRUE]
    /\ UNCHANGED <<store, stop, writing, roll, history>>

Promote(v) ==
    /\ Has(v) /\ version[v].state # "active"
    /\ version' = Moved(v, "active")
    /\ byHand' = byHand \cup {v}
    /\ UNCHANGED <<decided, results, audits, pass, stop, writing, roll, passes, lost>>

Retire(v) ==
    /\ Has(v) /\ version[v].state \in {"active", "candidate"}
    /\ version' = Moved(v, "retired")
    /\ UNCHANGED <<decided, results, audits, pass, stop, writing, roll, history>>

\* One rollback at a time (bound): the reads, then retire, then restore.
RollBack ==
    /\ roll.at = "idle" /\ Active # Builtin /\ version[Active].parent # Builtin
    /\ roll' = [at |-> "parent", from |-> Active, to |-> version[Active].parent]
    /\ UNCHANGED <<store, pass, stop, writing, history>>

RollStep ==
    /\ \/ roll.at = "parent" /\ Has(roll.to)
          /\ roll' = [roll EXCEPT !.at = "retire"] /\ UNCHANGED version
       \/ roll.at = "retire" /\ version' = Moved(roll.from, "retired")
          /\ roll' = [roll EXCEPT !.at = "restore"]
       \/ roll.at = "restore" /\ version' = Moved(roll.to, "active")
          /\ roll' = NoRollback
    /\ UNCHANGED <<decided, results, audits, pass, stop, writing, history>>

RollFails ==
    /\ roll.at # "idle" /\ roll' = NoRollback
    /\ UNCHANGED <<store, pass, stop, writing, history>>

\* The webview is lost, with the pass and the rollback in it.
Lose ==
    /\ Running \/ writing > 0 \/ roll.at # "idle"
    /\ pass' = NoPass /\ roll' = NoRollback /\ stop' = FALSE /\ writing' = 0
    /\ lost' = lost + writing + (IF Running THEN 1 ELSE 0)
    /\ UNCHANGED <<store, byHand, passes>>

---------------------------------------------------------------------------

Step ==
    \/ ReadConfig \/ ReadVersion \/ LookUp \/ NextAttempt \/ MakeDir \/ AttemptEnds \/ Store
    \/ Design \/ Put \/ Decide \/ LinkDecision \/ Verdict \/ RetireBaseline \/ Fail
    \/ Finally \/ Audit

Next ==
    \/ Begin \/ Step \/ Consent \/ Stop \/ StopRun
    \/ RollBack \/ RollStep \/ RollFails \/ Lose
    \/ \E v \in Versions : Promote(v) \/ Retire(v)

\* Every command comes back, and the gateway bounds a run.
Fairness == WF_vars(Step)

Spec == Init /\ [][Next]_vars /\ Fairness

---------------------------------------------------------------------------
(* Properties. *)

\* Every variable has its type.
TypeOK ==
    /\ version \in [Versions -> Version]
    /\ decided \in [Versions -> {"none", "promote", "reject"}]
    /\ results \in [Configs -> SUBSET Result]
    /\ audits \in Nat /\ writing \in Nat /\ passes \in Nat /\ lost \in Nat
    /\ pass \in Pass /\ stop \in BOOLEAN /\ roll \in Rollback
    /\ byHand \subseteq Versions

\* axiom.rs:11-15: at most one version is active, whoever promotes, retires and rolls back, and
\* however the pass and the user's clicks interleave.
OneActive == \A u, v \in ActiveOnes : u = v

\* pipeline.ts:355-363: what runs has its verdict on record: a version that is active, and was never
\* promoted by hand, is one whose decision promotes it and is linked; a rejected one has a decision
\* that rejects it.  Also after a crash between the writes, and for what a rollback restores.
MovesAreDecided ==
    \A v \in Versions :
        /\ version[v].state = "active" /\ v \notin byHand => decided[v] = "promote" /\ version[v].linked
        /\ version[v].state = "rejected" => decided[v] = "reject" /\ version[v].linked

\* pipeline.ts:300-316, 427-433: a candidate is not judged on numbers that are missing tasks: the
\* candidate that has a decision and the baseline it names were each measured, what is stored of
\* them is of every task as often as the suite repeats it, and the candidate's numbers are of its
\* own configuration.  Also when a pass was stopped between two attempts, failed or was lost, and
\* another one decides.  (What was stopped inside an attempt: StoppedIsNotKept.  Which configuration
\* the baseline's numbers are of is not said: the two reads of a pass can be of two versions.)
JudgedOnFullSuites ==
    \A v \in Versions : decided[v] # "none" =>
        /\ \A c \in {v, version[v].parent} :
              results[c] # {} /\ \A r \in results[c] : r.attempts = Attempts
        /\ \A r \in results[v] : r.config = v

\* Axiom.tsx:214-216: whatever a pass becomes, completed, declined, stopped or failed, it becomes a
\* row, unless the webview or the write itself was lost.
PassesAreRecorded == passes = audits + lost + writing + (IF Running THEN 1 ELSE 0)

\* Axiom.tsx:584: once its question is answered a pass ends, stopped or not.
PassEnds == WF_vars(Consent) => (Running ~> ~ Running)

\* pipeline.ts:300-303: a stopped run is reported, never judged, and never kept as a number.
StoppedIsNotKept == \A c \in Configs : \A r \in results[c] : ~ r.cut
=============================================================================
