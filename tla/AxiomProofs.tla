---------------------------- MODULE AxiomProofs ----------------------------
(***************************************************************************)
(* Proofs about Axiom, for any number of versions, attempts and passes.    *)
(*                                                                         *)
(* A version may run when it was earned: it is the built-in configuration, *)
(* the user promoted it, or its decision promotes it and is linked.  The   *)
(* invariant keeps that of everything the engine may put back: what is     *)
(* active, the parents, the baseline of the pass, the two ends of a        *)
(* rollback.  And it keeps what the pass knows at each of its awaits.      *)
(* What the numbers of a decision are worth is a second invariant, over    *)
(* the first: a version is measured while it has no result, so nothing is  *)
(* ever added to the numbers of one that was judged.                       *)
(***************************************************************************)
EXTENDS Axiom, TLAPS

Earned(c) == c = Builtin \/ c \in byHand \/ (c \in Versions /\ decided[c] = "promote" /\ version[c].linked)

\* A candidate from its making to its decision.
Undecided == {"lookup", "consent", "next", "mkdir", "attempt", "store", "decide"}

Chain ==
    /\ \A v \in Versions : version[v].state = "active" => Earned(v)
    /\ \A v \in Versions : version[v].state = "rejected" => decided[v] = "reject" /\ version[v].linked
    /\ \A v \in Versions : Earned(version[v].parent)
    /\ \A v \in Versions : ~ Has(v) => v \notin byHand /\ decided[v] = "none"

Held == Earned(pass.base) /\ Earned(roll.from) /\ Earned(roll.to)

CandInv ==
    /\ pass.side = "cand" =>
           /\ pass.cand \in Versions /\ Has(pass.cand)
           /\ version[pass.cand].parent = pass.base
           /\ results[pass.base] # {}
           /\ pass.at \in Undecided => decided[pass.cand] = "none"
    /\ pass.at \in {"decide", "link", "verdict", "retire"} => pass.side = "cand"
    /\ pass.at \in {"config", "version", "design", "put"} => pass.side = "base"

StageInv ==
    /\ pass.at \in {"mkdir", "attempt"} => pass.done < Attempts
    /\ pass.at = "design" => pass.aborted \/ results[pass.base] # {}
    /\ pass.at = "put" => results[pass.base] # {}
    /\ pass.at = "decide" => results[pass.cand] # {}
    /\ pass.at \in {"link", "verdict"} =>
           decided[pass.cand] = IF pass.promote THEN "promote" ELSE "reject"
    /\ pass.at = "verdict" => version[pass.cand].linked

\* A decision has its two measurements, whatever they are worth.
HasNumbers ==
    \A v \in Versions : decided[v] # "none" => results[v] # {} /\ results[version[v].parent] # {}

IInv == TypeOK /\ Chain /\ Held /\ CandInv /\ StageInv /\ HasNumbers /\ OneActive

\* What runs was earned, and a verdict has its decision: the invariant says what the run checks.
LEMMA Enough == IInv => MovesAreDecided
BY DEF IInv, Chain, MovesAreDecided, Earned, Builtin, Versions

LEMMA NoPassTyped == NoPass \in Pass
<1>1. Builtin \in Configs /\ 0 \in 0 .. Attempts
  BY AxiomAssumption DEF Builtin, Configs
<1> QED
  BY <1>1 DEF NoPass, Pass, Steps

LEMMA Initially == Init => IInv
<1> SUFFICES ASSUME Init PROVE IInv
  OBVIOUS
<1> USE AxiomAssumption
<1>1. TypeOK
  <2>1. Builtin \in Configs /\ Versions \subseteq Configs
    BY DEF Builtin, Configs
  <2>2. NoVersion \in Version
    BY <2>1 DEF NoVersion, Version, State
  <2>3. NoPass \in Pass
    BY NoPassTyped
  <2>4. NoRollback \in Rollback
    BY <2>1 DEF NoRollback, Rollback
  <2>5. version \in [Versions -> Version] /\ decided \in [Versions -> {"none", "promote", "reject"}]
        /\ results \in [Configs -> SUBSET Result]
    BY <2>2 DEF Init
  <2>6. stop \in BOOLEAN
    BY Zenon DEF Init
  <2> QED
    BY <2>3, <2>4, <2>5, <2>6 DEF Init, TypeOK
<1>2. \A v \in Versions : version[v] = NoVersion /\ decided[v] = "none"
  BY DEF Init
<1>3. Chain /\ OneActive /\ HasNumbers
  BY <1>2 DEF Chain, OneActive, ActiveOnes, HasNumbers, NoVersion, Earned, Builtin, Init
<1>4. Held /\ CandInv /\ StageInv
  BY DEF Init, Held, CandInv, StageInv, NoPass, NoRollback, Earned, Builtin
<1> QED
  BY <1>1, <1>3, <1>4 DEF IInv

-----------------------------------------------------------------------------
(* Facts about the operators. *)

\* The active configuration is the built-in one or an active version.
LEMMA ActiveIsActive == Active = Builtin \/ Active \in ActiveOnes
BY DEF Active

\* set_state moves states, and nothing else of a version; afterwards one version is active at most.
LEMMA MovedFacts ==
    ASSUME version \in [Versions -> Version], OneActive, NEW c, NEW s \in State \ {"none"}
    PROVE  /\ Moved(c, s) \in [Versions -> Version]
           /\ \A u \in Versions : /\ Moved(c, s)[u].parent = version[u].parent
                                  /\ Moved(c, s)[u].linked = version[u].linked
                                  /\ u # c => Moved(c, s)[u].state \in {version[u].state, "retired"}
                                  /\ u = c => Moved(c, s)[u].state = s
                                  /\ version[u].state # "none" => Moved(c, s)[u].state # "none"
                                  /\ Moved(c, s)[u].state = "none" => version[u].state = "none"
           /\ \A u, v \in Versions :
                 Moved(c, s)[u].state = "active" /\ Moved(c, s)[v].state = "active" => u = v
<1> DEFINE M == Moved(c, s)
<1>1. \A u \in Versions : M[u] = IF u = c THEN [version[u] EXCEPT !.state = s]
                                ELSE IF s = "active" /\ version[u].state = "active"
                                     THEN [version[u] EXCEPT !.state = "retired"] ELSE version[u]
  BY DEF Moved
<1>2. \A u \in Versions : version[u] \in Version
  OBVIOUS
<1>3. \A u \in Versions : M[u] \in Version
  <2> TAKE u \in Versions
  <2>1. \A t \in State : [version[u] EXCEPT !.state = t] \in Version
    BY <1>2 DEF Version
  <2>2. "retired" \in State /\ s \in State
    BY DEF State
  <2> QED
    BY <1>1, <1>2, <2>1, <2>2
<1>4. M \in [Versions -> Version]
  BY <1>3 DEF Moved
<1>5. \A u \in Versions : /\ M[u].parent = version[u].parent /\ M[u].linked = version[u].linked
                          /\ u # c => M[u].state \in {version[u].state, "retired"}
                          /\ u = c => M[u].state = s
                          /\ u # c /\ s = "active" => M[u].state # "active"
                          /\ u # c /\ M[u].state = "active" => version[u].state = "active"
                          /\ u # c /\ M[u].state = "none" => version[u].state = "none"
                          /\ u # c /\ version[u].state # "none" => M[u].state # "none"
  BY <1>1, <1>2 DEF Version
<1>6. ASSUME NEW u \in Versions, NEW v \in Versions, M[u].state = "active", M[v].state = "active"
      PROVE  u = v
  BY <1>5, <1>6 DEF OneActive, ActiveOnes
<1> QED
  BY <1>4, <1>5, <1>6 DEF State

\* Nothing that was earned is lost where the store's rows stay as they are.
LEMMA SameStore ==
    ASSUME IInv, UNCHANGED <<version, decided, byHand>>
    PROVE  /\ Chain' /\ OneActive'
           /\ \A c : Earned(c)' <=> Earned(c)
           /\ (UNCHANGED results => HasNumbers')
BY DEF IInv, Chain, OneActive, ActiveOnes, Earned, Has, HasNumbers

\* Decisions, links and clicks only add to what was earned.
LEMMA EarnedKept ==
    ASSUME IInv,
           \A v \in Versions : decided[v] = "promote" => decided'[v] = "promote",
           \A v \in Versions : version[v].linked => version'[v].linked,
           byHand \subseteq byHand',
           NEW c, Earned(c)
    PROVE  Earned(c)'
BY DEF Earned

-----------------------------------------------------------------------------
(* The pass.  The first lemma is about the steps that touch no row of the  *)
(* store: they keep all of the invariant that is about rows.               *)

LEMMA PassTypes ==
    ASSUME IInv, UNCHANGED <<version, decided, results, byHand, roll>>,
           pass' \in Pass, stop' \in BOOLEAN, audits' \in Nat, writing' \in Nat, passes' \in Nat,
           lost' \in Nat, Earned(pass'.base), CandInv', StageInv'
    PROVE  IInv'
<1>1. TypeOK'
  BY DEF IInv, TypeOK
<1>2. Chain' /\ OneActive' /\ HasNumbers' /\ (\A c : Earned(c)' <=> Earned(c))
  BY SameStore
<1>3. Held'
  BY <1>2 DEF IInv, Held
<1> QED
  BY <1>1, <1>2, <1>3 DEF IInv

LEMMA BeginKeeps == ASSUME IInv, Begin PROVE IInv'
<1>1. pass' = [NoPass EXCEPT !.at = "config"]
  BY DEF Begin
<1>2. pass' \in Pass
  BY <1>1, NoPassTyped DEF Pass, Steps
<1>3. Earned(pass'.base)
  BY <1>1 DEF NoPass, Earned
<1>4. CandInv' /\ StageInv'
  BY <1>1 DEF NoPass, CandInv, StageInv
<1>5. stop' \in BOOLEAN
  BY Zenon DEF Begin
<1>6. /\ UNCHANGED <<version, decided, results, byHand, roll>>
      /\ audits' \in Nat /\ writing' \in Nat /\ passes' \in Nat /\ lost' \in Nat
  BY DEF Begin, store, IInv, TypeOK
<1> QED
  BY <1>2, <1>3, <1>4, <1>5, <1>6, PassTypes

\* The awaits before and between the attempts.
LEMMA ReadKeeps == ASSUME IInv, ReadConfig \/ ReadVersion \/ LookUp \/ Consent PROVE IInv'
<1>1. pass \in Pass /\ stop \in BOOLEAN
  BY DEF IInv, TypeOK
<1>2. Active \in Configs /\ Earned(Active)
  BY ActiveIsActive DEF IInv, Chain, ActiveOnes, Configs, Earned
<1>3. UNCHANGED <<version, decided, results, audits, stop, writing, roll, byHand, passes, lost>>
  BY DEF ReadConfig, ReadVersion, LookUp, Consent, store, history
<1>4. SUFFICES pass' \in Pass /\ Earned(pass'.base) /\ CandInv' /\ StageInv'
  BY <1>1, <1>3, PassTypes DEF IInv, TypeOK
<1>5. CASE ReadConfig
  <2>1. pass' = [pass EXCEPT !.at = "version", !.config = Active] /\ pass.at = "config"
    BY <1>5 DEF ReadConfig, At
  <2>2. pass' \in Pass
    BY <1>1, <1>2, <2>1 DEF Pass, Steps
  <2>3. pass'.base = pass.base /\ pass'.side = pass.side /\ pass'.at = "version"
    BY <1>1, <2>1 DEF Pass
  <2> QED
    BY <2>1, <2>2, <2>3 DEF IInv, Held, CandInv, StageInv
<1>6. CASE ReadVersion
  <2>1. pass' = [pass EXCEPT !.at = "lookup", !.base = Active] /\ pass.at = "version"
    BY <1>6 DEF ReadVersion, At
  <2>2. pass' \in Pass
    BY <1>1, <1>2, <2>1 DEF Pass, Steps
  <2>3. pass'.base = Active /\ pass'.side = pass.side /\ pass'.at = "lookup"
    BY <1>1, <2>1 DEF Pass
  <2> QED
    BY <1>2, <2>1, <2>2, <2>3 DEF IInv, CandInv, StageInv
<1>7. CASE LookUp
  <2>1. PICK s \in {AfterMeasuring, "consent"} :
           /\ pass' = [pass EXCEPT !.at = s] /\ pass.at = "lookup"
           /\ s = AfterMeasuring => results[Measured] # {}
    BY <1>7 DEF LookUp, At, AfterMeasuring
  <2>2. pass' \in Pass
    BY <1>1, <2>1 DEF Pass, Steps, AfterMeasuring
  <2>3. /\ pass'.base = pass.base /\ pass'.side = pass.side /\ pass'.at = s
        /\ pass'.cand = pass.cand /\ pass'.aborted = pass.aborted
    BY <1>1, <2>1 DEF Pass
  <2>4. CandInv'
    BY <1>1, <1>3, <2>1, <2>3 DEF IInv, CandInv, AfterMeasuring, Undecided, Has, Pass
  <2>5. StageInv'
    BY <1>1, <1>3, <2>1, <2>3 DEF StageInv, AfterMeasuring, Measured, Pass
  <2> QED
    BY <2>2, <2>3, <2>4, <2>5 DEF IInv, Held
<1>8. CASE Consent
  <2>1. CASE pass' = [pass EXCEPT !.at = "next", !.done = 0, !.cut = FALSE]
    <3>0. 0 \in 0 .. Attempts
      BY AxiomAssumption
    <3>1. pass' \in Pass
      BY <1>1, <2>1, <3>0 DEF Pass, Steps
    <3>2. /\ pass'.base = pass.base /\ pass'.side = pass.side /\ pass'.at = "next"
          /\ pass'.cand = pass.cand /\ pass.at = "consent"
      BY <1>1, <1>8, <2>1 DEF Pass, Consent, At
    <3> QED
      BY <1>3, <3>1, <3>2 DEF IInv, Held, CandInv, StageInv, Undecided, Has
  <2>2. CASE pass' = [pass EXCEPT !.at = "ended"]
    <3>1. pass' \in Pass
      BY <1>1, <2>2 DEF Pass, Steps
    <3>2. /\ pass'.base = pass.base /\ pass'.side = pass.side /\ pass'.at = "ended"
          /\ pass'.cand = pass.cand
      BY <1>1, <2>2 DEF Pass
    <3> QED
      BY <1>3, <3>1, <3>2 DEF IInv, Held, CandInv, StageInv, Undecided, Has
  <2> QED
    BY <1>8, <2>1, <2>2 DEF Consent
<1> QED
  BY <1>5, <1>6, <1>7, <1>8

\* The attempts.
LEMMA AttemptKeeps ==
    ASSUME IInv, NextAttempt \/ MakeDir \/ AttemptEnds \/ Design \/ Fail
    PROVE  IInv'
<1>1. pass \in Pass /\ stop \in BOOLEAN
  BY DEF IInv, TypeOK
<1>2. UNCHANGED <<version, decided, results, audits, stop, writing, roll, byHand, passes, lost>>
  BY DEF NextAttempt, MakeDir, AttemptEnds, Design, Fail, store, history
<1>3. SUFFICES pass' \in Pass /\ Earned(pass'.base) /\ CandInv' /\ StageInv'
  BY <1>1, <1>2, PassTypes DEF IInv, TypeOK
<1>4. CASE NextAttempt
  <2>1. CASE pass.done = Attempts /\ pass' = [pass EXCEPT !.at = "store"]
    <3>1. pass' \in Pass
      BY <1>1, <2>1 DEF Pass, Steps
    <3>2. /\ pass'.base = pass.base /\ pass'.side = pass.side /\ pass'.at = "store"
          /\ pass'.cand = pass.cand /\ pass.at = "next"
      BY <1>1, <1>4, <2>1 DEF Pass, NextAttempt, At
    <3> QED
      BY <1>2, <3>1, <3>2 DEF IInv, Held, CandInv, StageInv, Undecided, Has
  <2>2. CASE pass' = [pass EXCEPT !.aborted = TRUE,
                                  !.at = IF pass.side = "base" THEN "design" ELSE "ended"]
    <3>1. pass' \in Pass
      BY <1>1, <2>2 DEF Pass, Steps
    <3>2. /\ pass'.base = pass.base /\ pass'.side = pass.side /\ pass'.aborted
          /\ pass'.at = (IF pass.side = "base" THEN "design" ELSE "ended")
          /\ pass'.cand = pass.cand
      BY <1>1, <2>2 DEF Pass
    <3> QED
      BY <1>1, <1>2, <3>1, <3>2 DEF IInv, Held, CandInv, StageInv, Undecided, Has
  <2>3. CASE pass.done < Attempts
             /\ pass' = [pass EXCEPT !.severed = FALSE, !.at = IF pass.dir THEN "attempt" ELSE "mkdir"]
    <3>1. pass' \in Pass
      BY <1>1, <2>3 DEF Pass, Steps
    <3>2. /\ pass'.base = pass.base /\ pass'.side = pass.side /\ pass'.done = pass.done
          /\ pass'.at \in {"attempt", "mkdir"}
          /\ pass'.cand = pass.cand /\ pass.at = "next"
      BY <1>1, <1>4, <2>3 DEF Pass, NextAttempt, At
    <3> QED
      BY <1>2, <2>3, <3>1, <3>2 DEF IInv, Held, CandInv, StageInv, Undecided, Has
  <2> QED
    BY <1>4, <2>1, <2>2, <2>3 DEF NextAttempt
<1>5. CASE MakeDir
  <2>1. pass' \in Pass
    BY <1>1, <1>5 DEF Pass, Steps, MakeDir
  <2>2. /\ pass'.base = pass.base /\ pass'.side = pass.side /\ pass'.at = "attempt"
        /\ pass'.cand = pass.cand /\ pass.at = "mkdir" /\ pass'.done = pass.done
    BY <1>1, <1>5 DEF Pass, MakeDir, At
  <2> QED
    BY <1>2, <2>1, <2>2 DEF IInv, Held, CandInv, StageInv, Undecided, Has
<1>6. CASE AttemptEnds
  <2>1. pass.at = "attempt" /\ pass.done < Attempts
    BY <1>6 DEF AttemptEnds, At, IInv, StageInv
  <2>2. pass.done \in Nat /\ pass.done + 1 \in 0 .. Attempts
    BY <1>1, <2>1, AxiomAssumption DEF Pass
  <2>3. pass.cut \in BOOLEAN /\ pass.severed \in BOOLEAN
    BY <1>1 DEF Pass
  <2>4. (pass.cut \/ pass.severed) \in BOOLEAN
    BY Zenon
  <2>5. pass' = [pass EXCEPT !.at = "next", !.done = pass.done + 1, !.cut = pass.cut \/ pass.severed]
    BY <1>6 DEF AttemptEnds
  <2>6. pass' \in Pass
    BY <1>1, <2>2, <2>4, <2>5 DEF Pass, Steps
  <2>7. /\ pass'.base = pass.base /\ pass'.side = pass.side /\ pass'.at = "next"
        /\ pass'.cand = pass.cand
    BY <1>1, <2>5 DEF Pass
  <2> QED
    BY <1>2, <2>1, <2>6, <2>7 DEF IInv, Held, CandInv, StageInv, Undecided, Has
<1>7. CASE Design
  <2>1. PICK s \in {"ended", "put"} :
           /\ pass' = [pass EXCEPT !.at = s] /\ pass.at = "design" /\ (s = "put" => ~ pass.aborted)
    BY <1>7 DEF Design, At
  <2>2. pass' \in Pass
    BY <1>1, <2>1 DEF Pass, Steps
  <2>3. /\ pass'.base = pass.base /\ pass'.side = pass.side /\ pass'.at = s
        /\ pass'.cand = pass.cand
    BY <1>1, <2>1 DEF Pass
  <2> QED
    BY <1>2, <2>1, <2>2, <2>3 DEF IInv, Held, CandInv, StageInv, Undecided, Has
<1>8. CASE Fail
  <2>1. pass' \in Pass
    BY <1>1, <1>8 DEF Pass, Steps, Fail
  <2>2. /\ pass'.base = pass.base /\ pass'.side = pass.side /\ pass'.at = "ended"
        /\ pass'.cand = pass.cand
    BY <1>1, <1>8 DEF Pass, Fail
  <2> QED
    BY <1>2, <2>1, <2>2 DEF IInv, Held, CandInv, StageInv, Undecided, Has
<1> QED
  BY <1>4, <1>5, <1>6, <1>7, <1>8

\* A result is added, never taken away.
LEMMA StoreKeeps == ASSUME IInv, Store PROVE IInv'
<1>1. pass \in Pass /\ results \in [Configs -> SUBSET Result]
  BY DEF IInv, TypeOK
<1> DEFINE new == [config |-> RunAs, attempts |-> pass.done, cut |-> pass.cut]
<1>2. /\ pass' = [pass EXCEPT !.at = AfterMeasuring] /\ pass.at = "store"
      /\ results' = [results EXCEPT ![Measured] = @ \cup {new}]
      /\ UNCHANGED <<version, decided, audits, stop, writing, roll, byHand, passes, lost>>
  BY DEF Store, At, history
<1>3. new \in Result
  BY <1>1 DEF Pass, RunAs, Result
<1>4. results' \in [Configs -> SUBSET Result]
  BY <1>1, <1>2, <1>3
<1>5. Measured \in Configs
  BY <1>1 DEF Measured, Pass
<1>6. results'[Measured] # {} /\ \A c \in Configs : results[c] # {} => results'[c] # {}
  BY <1>1, <1>2, <1>5
<1>7. AfterMeasuring = IF pass.side = "base" THEN "design" ELSE "decide"
  BY DEF AfterMeasuring
<1>8. pass' \in Pass
  BY <1>1, <1>2, <1>7 DEF Pass, Steps
<1>9. /\ pass'.base = pass.base /\ pass'.side = pass.side /\ pass'.at = AfterMeasuring
      /\ pass'.cand = pass.cand /\ pass.base \in Configs /\ pass.side \in {"base", "cand"}
  BY <1>1, <1>2 DEF Pass
<1>10. Chain' /\ OneActive' /\ (\A c : Earned(c)' <=> Earned(c))
  BY <1>2, SameStore
<1>11. Held'
  BY <1>2, <1>9, <1>10 DEF IInv, Held
<1>12. \A v \in Versions : v \in Configs /\ version[v].parent \in Configs
  BY DEF IInv, TypeOK, Version, Configs
<1>13. HasNumbers'
  BY <1>2, <1>6, <1>12 DEF IInv, HasNumbers
<1>14. CandInv'
  BY <1>2, <1>6, <1>7, <1>9 DEF IInv, CandInv, Undecided, Has
<1>15. StageInv'
  BY <1>6, <1>7, <1>9 DEF StageInv, Measured
<1>16. TypeOK'
  BY <1>2, <1>4, <1>8 DEF IInv, TypeOK
<1> QED
  BY <1>10, <1>11, <1>13, <1>14, <1>15, <1>16 DEF IInv

\* A candidate is a version that was not there: nothing of the chain is about it yet.
LEMMA PutKeeps == ASSUME IInv, Put PROVE IInv'
<1>1. pass \in Pass /\ version \in [Versions -> Version]
  BY DEF IInv, TypeOK
<1>2. PICK v \in Versions :
         /\ ~ Has(v)
         /\ version' = [version EXCEPT ![v] = [NoVersion EXCEPT !.state = "candidate", !.parent = pass.base]]
         /\ pass' = [pass EXCEPT !.at = "lookup", !.side = "cand", !.cand = v]
         /\ pass.at = "put"
         /\ UNCHANGED <<decided, results, audits, stop, writing, roll, byHand, passes, lost>>
  BY DEF Put, At, history
<1>3. version'[v] = [state |-> "candidate", parent |-> pass.base, linked |-> FALSE]
      /\ \A u \in Versions : u # v => version'[u] = version[u]
  BY <1>1, <1>2 DEF NoVersion
<1>4. /\ pass'.base = pass.base /\ pass'.side = "cand" /\ pass'.at = "lookup" /\ pass'.cand = v
      /\ pass.base \in Configs /\ v \in Configs
  BY <1>1, <1>2 DEF Pass, Configs
<1>5. pass' \in Pass
  BY <1>1, <1>2, <1>4 DEF Pass, Steps
<1>6. version' \in [Versions -> Version]
  <2>1. [NoVersion EXCEPT !.state = "candidate", !.parent = pass.base] \in Version
    BY <1>4 DEF NoVersion, Version, State
  <2> QED
    BY <1>1, <1>2, <2>1
<1>7. v \notin byHand /\ decided[v] = "none" /\ ~ Earned(v)
  BY <1>2 DEF IInv, Chain, Earned, Builtin, Versions
<1>8. \A c : Earned(c) => Earned(c)'
  BY <1>2, <1>3, <1>7 DEF Earned
<1>9. Earned(pass.base) /\ results[pass.base] # {}
  BY <1>2 DEF IInv, Held, StageInv
<1>10. \A u \in Versions : Has(u) => u # v /\ Has(u)'
  BY <1>2, <1>3 DEF Has
<1>11. Chain'
  BY <1>2, <1>3, <1>7, <1>8, <1>9, <1>10 DEF IInv, Chain, Has
<1>12. OneActive'
  BY <1>3 DEF IInv, OneActive, ActiveOnes
<1>13. HasNumbers'
  BY <1>2, <1>3, <1>7 DEF IInv, HasNumbers
<1>14. Held'
  BY <1>2, <1>4, <1>8 DEF IInv, Held
<1>15. CandInv' /\ StageInv'
  BY <1>2, <1>3, <1>4, <1>7, <1>9 DEF CandInv, StageInv, Has
<1>16. TypeOK'
  BY <1>2, <1>5, <1>6 DEF IInv, TypeOK
<1> QED
  BY <1>11, <1>12, <1>13, <1>14, <1>15, <1>16 DEF IInv

\* The decision is the candidate's first and only one, on two measurements.
LEMMA DecideKeeps == ASSUME IInv, Decide PROVE IInv'
<1>1. pass \in Pass /\ decided \in [Versions -> {"none", "promote", "reject"}]
  BY DEF IInv, TypeOK
<1>2. PICK b \in BOOLEAN :
         /\ decided' = [decided EXCEPT ![pass.cand] = IF b THEN "promote" ELSE "reject"]
         /\ pass' = [pass EXCEPT !.at = "link", !.promote = b]
         /\ pass.at = "decide"
         /\ UNCHANGED <<version, results, audits, stop, writing, roll, byHand, passes, lost>>
  BY DEF Decide, At, history
<1>3. /\ pass.side = "cand" /\ pass.cand \in Versions /\ Has(pass.cand)
      /\ version[pass.cand].parent = pass.base /\ results[pass.base] # {}
      /\ decided[pass.cand] = "none" /\ results[pass.cand] # {}
  BY <1>2 DEF IInv, CandInv, StageInv, Undecided
<1>4. pass' \in Pass
  BY <1>1, <1>2 DEF Pass, Steps
<1>5. /\ pass'.base = pass.base /\ pass'.side = "cand" /\ pass'.at = "link"
      /\ pass'.cand = pass.cand /\ pass'.promote = b
  BY <1>1, <1>2, <1>3 DEF Pass
<1>6. /\ decided'[pass.cand] = (IF b THEN "promote" ELSE "reject")
      /\ \A u \in Versions : u # pass.cand => decided'[u] = decided[u]
      /\ decided' \in [Versions -> {"none", "promote", "reject"}]
  BY <1>1, <1>2, <1>3
<1>7. \A c : Earned(c) => Earned(c)'
  BY <1>2, <1>3, <1>6 DEF Earned
<1>8. Chain'
  BY <1>2, <1>3, <1>6, <1>7 DEF IInv, Chain, Has
<1>9. OneActive'
  BY <1>2 DEF IInv, OneActive, ActiveOnes
<1>10. HasNumbers'
  BY <1>2, <1>3, <1>6 DEF IInv, HasNumbers
<1>11. Held'
  BY <1>2, <1>5, <1>7 DEF IInv, Held
<1>12. CandInv' /\ StageInv'
  BY <1>2, <1>3, <1>5, <1>6 DEF CandInv, StageInv, Has, Undecided
<1>13. TypeOK'
  BY <1>2, <1>4, <1>6 DEF IInv, TypeOK
<1> QED
  BY <1>8, <1>9, <1>10, <1>11, <1>12, <1>13 DEF IInv

LEMMA LinkKeeps == ASSUME IInv, LinkDecision PROVE IInv'
<1>1. pass \in Pass /\ version \in [Versions -> Version]
  BY DEF IInv, TypeOK
<1>2. /\ version' = [version EXCEPT ![pass.cand].linked = TRUE]
      /\ pass' = [pass EXCEPT !.at = "verdict"]
      /\ pass.at = "link"
      /\ UNCHANGED <<decided, results, audits, stop, writing, roll, byHand, passes, lost>>
  BY DEF LinkDecision, At, history
<1>3. /\ pass.side = "cand" /\ pass.cand \in Versions /\ Has(pass.cand)
      /\ version[pass.cand].parent = pass.base /\ results[pass.base] # {}
      /\ decided[pass.cand] = IF pass.promote THEN "promote" ELSE "reject"
  BY <1>2 DEF IInv, CandInv, StageInv
<1>4. pass' \in Pass
  BY <1>1, <1>2 DEF Pass, Steps
<1>5. /\ pass'.base = pass.base /\ pass'.side = "cand" /\ pass'.at = "verdict"
      /\ pass'.cand = pass.cand /\ pass'.promote = pass.promote
  BY <1>1, <1>2, <1>3 DEF Pass
<1>6. /\ \A u \in Versions : version'[u].state = version[u].state /\ version'[u].parent = version[u].parent
      /\ \A u \in Versions : version[u].linked => version'[u].linked
      /\ version'[pass.cand].linked
      /\ version' \in [Versions -> Version]
  BY <1>1, <1>2, <1>3 DEF Version
<1>7. \A c : Earned(c) => Earned(c)'
  BY <1>2, <1>6 DEF Earned
<1>8. Chain'
  BY <1>2, <1>6, <1>7 DEF IInv, Chain, Has
<1>9. OneActive'
  BY <1>6 DEF IInv, OneActive, ActiveOnes
<1>10. HasNumbers'
  BY <1>2, <1>6 DEF IInv, HasNumbers
<1>11. Held'
  BY <1>2, <1>5, <1>7 DEF IInv, Held
<1>12. CandInv' /\ StageInv'
  BY <1>2, <1>3, <1>5, <1>6 DEF CandInv, StageInv, Has, Undecided
<1>13. TypeOK'
  BY <1>2, <1>4, <1>6 DEF IInv, TypeOK
<1> QED
  BY <1>8, <1>9, <1>10, <1>11, <1>12, <1>13 DEF IInv

-----------------------------------------------------------------------------
(* The moves.  One lemma for all of them: whoever moves a version to active *)
(* must have earned it, and whoever rejects one must have the decision.     *)

LEMMA MoveKeeps ==
    ASSUME IInv, NEW c \in Configs, NEW s \in State \ {"none"},
           version' = Moved(c, s), UNCHANGED <<decided, results>>,
           byHand \subseteq byHand', byHand' \subseteq byHand \cup {c},
           byHand' # byHand => Has(c),
           s = "active" => Earned(c)',
           s = "rejected" => c \in Versions /\ decided[c] = "reject" /\ version[c].linked
    PROVE  /\ Chain' /\ OneActive' /\ HasNumbers'
           /\ version' \in [Versions -> Version]
           /\ \A d : Earned(d) => Earned(d)'
           /\ \A u \in Versions : /\ version'[u].parent = version[u].parent
                                  /\ version'[u].linked = version[u].linked
                                  /\ Has(u) => Has(u)'
<1>1. version \in [Versions -> Version] /\ OneActive
  BY DEF IInv, TypeOK
<1>2. /\ version' \in [Versions -> Version]
      /\ \A u \in Versions : /\ version'[u].parent = version[u].parent
                             /\ version'[u].linked = version[u].linked
                             /\ u # c => version'[u].state \in {version[u].state, "retired"}
                             /\ u = c => version'[u].state = s
                             /\ version[u].state # "none" => version'[u].state # "none"
                             /\ version'[u].state = "none" => version[u].state = "none"
      /\ \A u, v \in Versions :
            version'[u].state = "active" /\ version'[v].state = "active" => u = v
  BY <1>1, MovedFacts
<1>3. \A d : Earned(d) => Earned(d)'
  BY <1>2 DEF Earned
<1>4. \A u \in Versions : Has(u) => Has(u)'
  BY <1>2 DEF Has
<1>5. \A u \in Versions : version'[u].state = "active" => Earned(u)'
  BY <1>2, <1>3 DEF IInv, Chain
<1>6. \A u \in Versions : version'[u].state = "rejected" => decided'[u] = "reject" /\ version'[u].linked
  BY <1>2 DEF IInv, Chain
<1>7. \A u \in Versions : ~ Has(u)' => u \notin byHand' /\ decided'[u] = "none"
  BY <1>2, <1>4 DEF IInv, Chain, Has
<1>8. Chain'
  BY <1>2, <1>3, <1>5, <1>6, <1>7 DEF IInv, Chain
<1>9. OneActive'
  BY <1>2 DEF OneActive, ActiveOnes
<1>10. HasNumbers'
  BY <1>2 DEF IInv, HasNumbers
<1> QED
  BY <1>2, <1>3, <1>4, <1>8, <1>9, <1>10

\* The verdict of the engine.
LEMMA VerdictKeeps == ASSUME IInv, Verdict \/ RetireBaseline PROVE IInv'
<1>1. pass \in Pass
  BY DEF IInv, TypeOK
<1>2. UNCHANGED <<decided, results, audits, stop, writing, roll, byHand, passes, lost>>
  BY DEF Verdict, RetireBaseline, history
<1>3. /\ pass.side = "cand" /\ pass.cand \in Versions /\ Has(pass.cand)
      /\ version[pass.cand].parent = pass.base /\ results[pass.base] # {}
      /\ pass.base \in Configs /\ pass.cand \in Configs
  BY <1>1 DEF Verdict, RetireBaseline, At, IInv, CandInv, Pass, Configs
<1>4. /\ Chain' /\ OneActive' /\ HasNumbers'
      /\ version' \in [Versions -> Version]
      /\ \A d : Earned(d) => Earned(d)'
      /\ \A u \in Versions : /\ version'[u].parent = version[u].parent
                             /\ version'[u].linked = version[u].linked
                             /\ Has(u) => Has(u)'
  <2>1. CASE Verdict
    <3>1. PICK c \in Configs, s \in State \ {"none"} :
             c = pass.cand /\ s = (IF pass.promote THEN "active" ELSE "rejected")
      BY <1>3 DEF State
    <3>2. version' = Moved(c, s)
      BY <2>1, <3>1 DEF Verdict
    <3>3. decided[c] = (IF pass.promote THEN "promote" ELSE "reject") /\ version[c].linked
      BY <2>1, <3>1 DEF Verdict, At, IInv, StageInv
    <3>4. version \in [Versions -> Version] /\ OneActive
      BY DEF IInv, TypeOK
    <3>5. version'[c].linked
      BY <1>3, <3>1, <3>2, <3>3, <3>4, MovedFacts
    <3>6. s = "active" => Earned(c)'
      BY <1>2, <1>3, <3>1, <3>3, <3>5 DEF Earned
    <3>7. s = "rejected" => c \in Versions /\ decided[c] = "reject" /\ version[c].linked
      BY <1>3, <3>1, <3>3
    <3> QED
      BY <1>2, <3>2, <3>6, <3>7, MoveKeeps
  <2>2. CASE RetireBaseline
    <3>1. PICK c \in Configs : c = pass.base
      BY <1>3
    <3>2. version' = Moved(c, "retired") /\ "retired" \in State \ {"none"}
      BY <2>2, <3>1 DEF RetireBaseline, State
    <3> QED
      BY <1>2, <3>2, MoveKeeps
  <2> QED
    BY <2>1, <2>2
<1>5. PICK at \in {"retire", "ended"} : pass' = [pass EXCEPT !.at = at]
  BY DEF Verdict, RetireBaseline
<1>6. pass' \in Pass
  BY <1>1, <1>5 DEF Pass, Steps
<1>7. /\ pass'.base = pass.base /\ pass'.side = "cand" /\ pass'.at = at
      /\ pass'.cand = pass.cand
  BY <1>1, <1>3, <1>5 DEF Pass
<1>8. Held'
  BY <1>2, <1>4, <1>7 DEF IInv, Held
<1>9. CandInv' /\ StageInv'
  BY <1>2, <1>3, <1>4, <1>5, <1>7 DEF CandInv, StageInv, Undecided
<1>10. TypeOK'
  BY <1>2, <1>4, <1>6 DEF IInv, TypeOK
<1> QED
  BY <1>4, <1>8, <1>9, <1>10 DEF IInv

-----------------------------------------------------------------------------
(* The user, and the loss of the webview. *)

\* What the moves of the user leave of the pass.
LEMMA MovedByUser ==
    ASSUME IInv, NEW c \in Configs, NEW s \in State \ {"none"},
           version' = Moved(c, s),
           UNCHANGED <<decided, results, audits, pass, stop, writing, passes, lost>>,
           roll' \in Rollback, Earned(roll.from) /\ roll'.from \in {roll.from, Builtin},
           roll'.to \in {roll.to, Builtin},
           byHand' \subseteq Versions, byHand \subseteq byHand', byHand' \subseteq byHand \cup {c},
           byHand' # byHand => Has(c),
           s = "active" => Earned(c)',
           s # "rejected"
    PROVE  IInv'
<1>1. /\ Chain' /\ OneActive' /\ HasNumbers'
      /\ version' \in [Versions -> Version]
      /\ \A d : Earned(d) => Earned(d)'
      /\ \A u \in Versions : /\ version'[u].parent = version[u].parent
                             /\ version'[u].linked = version[u].linked
                             /\ Has(u) => Has(u)'
  BY MoveKeeps
<1>2. Held'
  BY <1>1 DEF IInv, Held, Earned
<1>3. CandInv'
  BY <1>1 DEF IInv, CandInv
<1>4. StageInv'
  <2>1. pass.at = "verdict" => pass.cand \in Versions
    BY DEF IInv, CandInv
  <2> QED
    BY <1>1, <2>1 DEF IInv, StageInv
<1>5. TypeOK'
  BY <1>1 DEF IInv, TypeOK
<1> QED
  BY <1>1, <1>2, <1>3, <1>4, <1>5 DEF IInv

LEMMA ClickKeeps == ASSUME IInv, NEW v \in Versions, Promote(v) \/ Retire(v) PROVE IInv'
<1>1. roll \in Rollback /\ byHand \subseteq Versions /\ Earned(roll.from) /\ v \in Configs
  BY DEF IInv, TypeOK, Held, Configs
<1>2. CASE Promote(v)
  <2>1. /\ version' = Moved(v, "active") /\ "active" \in State \ {"none"} /\ Has(v)
        /\ byHand' = byHand \cup {v}
        /\ UNCHANGED <<decided, results, audits, pass, stop, writing, roll, passes, lost>>
    BY <1>2 DEF Promote, State
  <2>2. Earned(v)'
    BY <2>1 DEF Earned
  <2> QED
    BY <1>1, <2>1, <2>2, MovedByUser
<1>3. CASE Retire(v)
  <2>1. /\ version' = Moved(v, "retired") /\ "retired" \in State \ {"none"}
        /\ UNCHANGED <<decided, results, audits, pass, stop, writing, roll, byHand, passes, lost>>
    BY <1>3 DEF Retire, State, history
  <2> QED
    BY <1>1, <2>1, MovedByUser
<1> QED
  BY <1>2, <1>3

LEMMA RollKeeps == ASSUME IInv, RollBack \/ RollStep \/ RollFails PROVE IInv'
<1>1. roll \in Rollback /\ byHand \subseteq Versions /\ Earned(roll.from) /\ Earned(roll.to)
  BY DEF IInv, TypeOK, Held
<1>2. UNCHANGED <<decided, results, audits, pass, stop, writing, byHand, passes, lost>>
  BY DEF RollBack, RollStep, RollFails, store, history
<1>3. NoRollback \in Rollback /\ NoRollback.from = Builtin /\ NoRollback.to = Builtin
  BY DEF NoRollback, Rollback, Configs
<1>4. ASSUME UNCHANGED version, roll' \in Rollback, Earned(roll'.from), Earned(roll'.to) PROVE IInv'
  <2>1. Chain' /\ OneActive' /\ HasNumbers' /\ (\A c : Earned(c)' <=> Earned(c))
    BY <1>2, <1>4, SameStore
  <2>2. Held'
    BY <1>2, <1>4, <2>1 DEF IInv, Held
  <2>3. CandInv' /\ StageInv'
    BY <1>2, <1>4 DEF IInv, CandInv, StageInv, Has
  <2>4. TypeOK'
    BY <1>2, <1>4 DEF IInv, TypeOK
  <2> QED
    BY <2>1, <2>2, <2>3, <2>4 DEF IInv
<1>5. CASE RollBack
  <2>1. Active \in ActiveOnes /\ Active \in Versions /\ Earned(Active)
    BY <1>5, ActiveIsActive DEF RollBack, ActiveOnes, IInv, Chain
  <2>2. Earned(version[Active].parent) /\ version[Active].parent \in Configs /\ Active \in Configs
    BY <2>1 DEF IInv, Chain, TypeOK, Version, Configs
  <2>3. roll' = [at |-> "parent", from |-> Active, to |-> version[Active].parent] /\ UNCHANGED version
    BY <1>5 DEF RollBack, store
  <2>4. roll' \in Rollback /\ roll'.from = Active /\ roll'.to = version[Active].parent
    BY <2>2, <2>3 DEF Rollback
  <2> QED
    BY <1>4, <2>1, <2>2, <2>3, <2>4
<1>6. CASE roll' = NoRollback /\ UNCHANGED version
  BY <1>3, <1>4, <1>6 DEF Earned
<1>7. CASE roll' = [roll EXCEPT !.at = "retire"] /\ UNCHANGED version
  <2>1. roll' \in Rollback /\ roll'.from = roll.from /\ roll'.to = roll.to
    BY <1>1, <1>7 DEF Rollback
  <2> QED
    BY <1>1, <1>4, <1>7, <2>1
<1>8. CASE version' = Moved(roll.from, "retired") /\ roll' = [roll EXCEPT !.at = "restore"]
  <2>1. roll' \in Rollback /\ roll'.from = roll.from /\ roll'.to = roll.to /\ roll.from \in Configs
    BY <1>1, <1>8 DEF Rollback
  <2>2. PICK c \in Configs : c = roll.from
    BY <2>1
  <2>3. version' = Moved(c, "retired") /\ "retired" \in State \ {"none"}
    BY <1>8, <2>2 DEF State
  <2> QED
    BY <1>1, <1>2, <2>1, <2>3, MovedByUser
<1>9. CASE version' = Moved(roll.to, "active") /\ roll' = NoRollback
  <2>1. PICK c \in Configs : c = roll.to
    BY <1>1 DEF Rollback
  <2>2. version' = Moved(c, "active") /\ "active" \in State \ {"none"} /\ Earned(c)
    BY <1>1, <1>9, <2>1 DEF State
  <2>3. version'[c].linked = version[c].linked \/ c \notin Versions
    BY <2>2, MovedFacts DEF IInv, TypeOK
  <2>4. Earned(c)'
    BY <1>2, <2>2, <2>3 DEF Earned
  <2> QED
    BY <1>1, <1>2, <1>3, <1>9, <2>2, <2>4, MovedByUser
<1> QED
  BY <1>5, <1>6, <1>7, <1>8, <1>9 DEF RollStep, RollFails, store

\* The end of a pass, the Stop buttons, and the loss.
LEMMA EndKeeps == ASSUME IInv, Finally \/ Audit \/ Stop \/ StopRun \/ Lose PROVE IInv'
<1>1. /\ pass \in Pass /\ stop \in BOOLEAN /\ roll \in Rollback
      /\ audits \in Nat /\ writing \in Nat /\ passes \in Nat /\ lost \in Nat
      /\ Earned(pass.base)
  BY DEF IInv, TypeOK, Held
<1>2. /\ NoPass \in Pass /\ NoPass.at = "idle" /\ NoPass.side = "base" /\ Earned(NoPass.base)
  BY NoPassTyped DEF NoPass, Earned
<1>3. CASE Finally
  <2>1. /\ UNCHANGED <<version, decided, results, byHand, roll, stop, audits, passes, lost>>
        /\ pass' = NoPass /\ writing' = writing + 1
    BY <1>3 DEF Finally, store, history
  <2>2. CandInv' /\ StageInv'
    BY <1>2, <2>1 DEF CandInv, StageInv
  <2> QED
    BY <1>1, <1>2, <2>1, <2>2, PassTypes
<1>4. CASE Audit
  <2>1. /\ UNCHANGED <<version, decided, results, byHand, roll, stop, pass, passes>>
        /\ writing' = writing - 1 /\ writing > 0
    BY <1>4 DEF Audit
  <2>2. writing' \in Nat
    BY <1>1, <2>1
  <2>3. audits' \in Nat /\ lost' \in Nat
    BY <1>1, <1>4 DEF Audit
  <2>4. CandInv' /\ StageInv'
    BY <2>1 DEF IInv, CandInv, StageInv, Has
  <2> QED
    BY <1>1, <2>1, <2>2, <2>3, <2>4, PassTypes
<1>5. CASE Stop \/ StopRun
  <2>1. /\ UNCHANGED <<version, decided, results, byHand, roll, audits, writing, passes, lost>>
    BY <1>5 DEF Stop, StopRun, store, history
  <2>2. (pass.severed \/ At("attempt")) \in BOOLEAN
    BY Zenon
  <2>3. PICK b \in BOOLEAN : pass' = [pass EXCEPT !.severed = b]
    BY <1>5, <2>2 DEF Stop, StopRun
  <2>4. /\ pass' \in Pass /\ pass'.base = pass.base /\ pass'.side = pass.side /\ pass'.at = pass.at
        /\ pass'.cand = pass.cand /\ pass'.aborted = pass.aborted /\ pass'.done = pass.done
        /\ pass'.promote = pass.promote
    BY <1>1, <2>3 DEF Pass
  <2>5. stop' \in BOOLEAN
    BY <1>1, <1>5, Zenon DEF Stop, StopRun
  <2>6. CandInv' /\ StageInv'
    BY <2>1, <2>4 DEF IInv, CandInv, StageInv, Has
  <2> QED
    BY <1>1, <2>1, <2>4, <2>5, <2>6, PassTypes
<1>6. CASE Lose
  <2>1. /\ UNCHANGED <<version, decided, results, byHand, audits, passes>>
        /\ pass' = NoPass /\ roll' = NoRollback /\ writing' = 0
        /\ lost' = lost + writing + (IF Running THEN 1 ELSE 0)
    BY <1>6 DEF Lose, store
  <2>2. lost' \in Nat
    BY <1>1, <2>1
  <2>3. stop' \in BOOLEAN
    BY <1>6, Zenon DEF Lose
  <2>4. NoRollback \in Rollback /\ Earned(NoRollback.from) /\ Earned(NoRollback.to)
    BY DEF NoRollback, Rollback, Configs, Earned
  <2>5. CandInv' /\ StageInv'
    BY <1>2, <2>1 DEF CandInv, StageInv
  <2>6. Chain' /\ OneActive' /\ HasNumbers' /\ (\A c : Earned(c)' <=> Earned(c))
    BY <2>1, SameStore
  <2>7. Held'
    BY <1>2, <2>1, <2>4, <2>6 DEF Held
  <2>8. TypeOK'
    BY <1>1, <1>2, <2>1, <2>2, <2>3, <2>4 DEF IInv, TypeOK
  <2> QED
    BY <2>5, <2>6, <2>7, <2>8 DEF IInv
<1> QED
  BY <1>3, <1>4, <1>5, <1>6

-----------------------------------------------------------------------------
(* What the numbers are worth. *)

\* From the question to the store: the version that is measured has no result yet.
Measuring == {"consent", "next", "mkdir", "attempt", "store"}

Suites ==
    /\ \A c \in Configs : \A r \in results[c] : r.attempts = Attempts
    /\ \A v \in Versions : ~ Has(v) => results[v] = {}
    /\ \A v \in Versions : decided[v] # "none" => \A r \in results[v] : r.config = v
    /\ pass.base # Builtin => Has(pass.base)
    /\ pass.side = "cand" => \A r \in results[pass.cand] : r.config = pass.cand
    /\ pass.at \in Measuring => results[Measured] = {}
    /\ pass.at = "store" => pass.done = Attempts

LEMMA JudgedFully == IInv /\ Suites => JudgedOnFullSuites
<1> SUFFICES ASSUME IInv, Suites, NEW v \in Versions, decided[v] # "none"
             PROVE  /\ \A c \in {v, version[v].parent} :
                          results[c] # {} /\ \A r \in results[c] : r.attempts = Attempts
                    /\ \A r \in results[v] : r.config = v
  BY DEF JudgedOnFullSuites
<1>1. v \in Configs /\ version[v].parent \in Configs
  BY DEF IInv, TypeOK, Version, Configs
<1>2. results[v] # {} /\ results[version[v].parent] # {}
  BY DEF IInv, HasNumbers
<1> QED
  BY <1>1, <1>2 DEF Suites

LEMMA InitialSuites == Init => Suites
BY AxiomAssumption DEF Init, Suites, NoPass, Builtin, Configs, Measuring, Versions

\* Steps that store no result: what they need to say of the pass.
LEMMA SuitesKept ==
    ASSUME Suites, UNCHANGED results,
           \A u \in Versions : Has(u) => Has(u)',
           \A u \in Versions : decided'[u] # "none" =>
               decided[u] # "none" \/ (pass.side = "cand" /\ u = pass.cand),
           pass.base # Builtin => pass.base \in Versions,
           pass'.base \in {Builtin, pass.base} \/ (pass'.base \in Versions /\ Has(pass'.base)),
           pass'.side = "cand" => (pass.side = "cand" /\ pass'.cand = pass.cand)
                                  \/ results[pass'.cand] = {},
           pass'.at \in Measuring => results[Measured'] = {},
           pass'.at = "store" => pass'.done = Attempts
    PROVE  Suites'
BY DEF Suites

LEMMA SuitesStep == IInv /\ Suites /\ [Next]_vars => Suites'
<1> SUFFICES ASSUME IInv, Suites, [Next]_vars PROVE Suites'
  OBVIOUS
<1>1. pass \in Pass /\ results \in [Configs -> SUBSET Result] /\ version \in [Versions -> Version]
  BY DEF IInv, TypeOK
<1>2. /\ pass.base \in Configs /\ pass.cand \in Configs /\ pass.side \in {"base", "cand"}
      /\ pass.base # Builtin => pass.base \in Versions
  BY <1>1 DEF Pass, Configs
<1>3. NoPass.at = "idle" /\ NoPass.side = "base" /\ NoPass.base = Builtin
  BY DEF NoPass
<1>4. ASSUME UNCHANGED <<results, decided>>, \A u \in Versions : Has(u) => Has(u)',
             pass'.at \notin Measuring,
             \/ pass'.base = pass.base /\ pass'.side = pass.side /\ pass'.cand = pass.cand
             \/ pass'.base = Builtin /\ pass'.side = "base"
      PROVE  Suites'
  BY <1>2, <1>4, SuitesKept DEF Measuring
<1>5. ASSUME UNCHANGED <<results, decided>>, \A u \in Versions : Has(u) => Has(u)',
             pass.at \in Measuring, pass'.at \in Measuring \ {"store"},
             pass'.base = pass.base, pass'.side = pass.side, pass'.cand = pass.cand
      PROVE  Suites'
  <2>1. Measured' = Measured /\ results[Measured] = {}
    BY <1>5 DEF Measured, Suites
  <2> QED
    BY <1>2, <1>5, <2>1, SuitesKept
<1>6. ASSUME UNCHANGED <<results, decided, pass>>, \A u \in Versions : Has(u) => Has(u)'
      PROVE  Suites'
  <2>1. Measured' = Measured
    BY <1>6 DEF Measured
  <2> QED
    BY <1>2, <1>6, <2>1, SuitesKept DEF Suites
<1>7. \A c \in Configs, s \in State \ {"none"} :
        version' = Moved(c, s) => \A u \in Versions : Has(u) => Has(u)'
  <2> SUFFICES ASSUME NEW c \in Configs, NEW s \in State \ {"none"}, version' = Moved(c, s)
               PROVE  \A u \in Versions : Has(u) => Has(u)'
    OBVIOUS
  <2>1. \A u \in Versions : version[u].state # "none" => Moved(c, s)[u].state # "none"
    BY <1>1, MovedFacts DEF IInv
  <2> QED
    BY <2>1 DEF Has
<1>8. {"active", "rejected", "retired"} \subseteq State \ {"none"}
  BY DEF State
<1>9. UNCHANGED version => \A u \in Versions : Has(u) => Has(u)'
  BY DEF Has
<1>10. CASE UNCHANGED vars \/ Audit
  BY <1>6, <1>9, <1>10 DEF vars, store, Audit
<1>11. CASE Begin
  <2>1. pass'.at = "config" /\ pass'.base = Builtin /\ pass'.side = "base"
    BY <1>11 DEF Begin, NoPass
  <2> QED
    BY <1>4, <1>9, <1>11, <2>1 DEF Begin, store, Measuring
<1>12. CASE Finally \/ Lose
  <2>1. pass' = NoPass /\ UNCHANGED <<version, decided, results>>
    BY <1>12 DEF Finally, Lose, store
  <2> QED
    BY <1>3, <1>4, <1>9, <2>1 DEF Measuring
<1>13. CASE ReadConfig \/ Design \/ Fail
  <2>1. /\ UNCHANGED <<version, decided, results>>
        /\ pass'.base = pass.base /\ pass'.side = pass.side /\ pass'.cand = pass.cand
        /\ pass'.at \in {"version", "ended", "put"}
    BY <1>1, <1>13 DEF ReadConfig, Design, Fail, store, Pass
  <2> QED
    BY <1>4, <1>9, <2>1 DEF Measuring
<1>14. CASE ReadVersion
  <2>1. /\ UNCHANGED <<version, decided, results>>
        /\ pass'.base = Active /\ pass'.side = pass.side /\ pass'.cand = pass.cand
        /\ pass'.at = "lookup"
    BY <1>1, <1>14 DEF ReadVersion, store, Pass
  <2>2. Active = Builtin \/ (Active \in Versions /\ Has(Active))
    BY ActiveIsActive DEF ActiveOnes, Has
  <2> QED
    BY <1>2, <1>9, <2>1, <2>2, SuitesKept DEF Measuring
<1>15. CASE LookUp
  <2>1. /\ UNCHANGED <<version, decided, results>>
        /\ pass'.base = pass.base /\ pass'.side = pass.side /\ pass'.cand = pass.cand
        /\ pass'.at = IF results[Measured] # {} THEN AfterMeasuring ELSE "consent"
    BY <1>1, <1>15 DEF LookUp, store, Pass
  <2>2. Measured' = Measured /\ AfterMeasuring \in {"design", "decide"}
    BY <2>1 DEF Measured, AfterMeasuring
  <2> QED
    BY <1>2, <1>9, <2>1, <2>2, SuitesKept DEF Measuring
<1>16. CASE Consent \/ MakeDir \/ AttemptEnds
  <2>1. /\ UNCHANGED <<version, decided, results>>
        /\ pass'.base = pass.base /\ pass'.side = pass.side /\ pass'.cand = pass.cand
        /\ pass.at \in {"consent", "mkdir", "attempt"} /\ pass'.at \in {"next", "ended", "attempt"}
    BY <1>1, <1>16 DEF Consent, MakeDir, AttemptEnds, At, store, Pass
  <2> QED
    BY <1>4, <1>5, <1>9, <2>1 DEF Measuring
<1>17. CASE NextAttempt
  <2>1. /\ UNCHANGED <<version, decided, results>> /\ pass.at = "next"
        /\ pass'.base = pass.base /\ pass'.side = pass.side /\ pass'.cand = pass.cand
        /\ pass'.at \in {"store", "design", "ended", "attempt", "mkdir"}
        /\ pass'.at = "store" => pass'.done = Attempts
    BY <1>1, <1>17 DEF NextAttempt, At, store, Pass
  <2>2. Measured' = Measured /\ results[Measured] = {}
    BY <2>1 DEF Measured, Suites, Measuring
  <2> QED
    BY <1>2, <1>9, <2>1, <2>2, SuitesKept
<1>18. CASE Stop \/ StopRun
  <2>1. /\ UNCHANGED <<version, decided, results>> /\ pass'.at = pass.at /\ pass'.done = pass.done
        /\ pass'.base = pass.base /\ pass'.side = pass.side /\ pass'.cand = pass.cand
    BY <1>1, <1>18 DEF Stop, StopRun, store, Pass
  <2>2. Measured' = Measured
    BY <2>1 DEF Measured
  <2> QED
    BY <1>2, <1>9, <2>1, <2>2, SuitesKept DEF Suites
<1>19. CASE Store
  <2> DEFINE new == [config |-> RunAs, attempts |-> pass.done, cut |-> pass.cut]
  <2>1. /\ UNCHANGED <<version, decided>> /\ pass.at = "store" /\ pass.done = Attempts
        /\ pass'.base = pass.base /\ pass'.side = pass.side /\ pass'.cand = pass.cand
        /\ pass'.at \in {"design", "decide"}
        /\ results' = [results EXCEPT ![Measured] = @ \cup {new}]
    BY <1>1, <1>19 DEF Store, At, AfterMeasuring, Pass, Suites
  <2>2. results[Measured] = {} /\ Measured \in Configs
    BY <1>2, <2>1 DEF Suites, Measuring, Measured
  <2>3. /\ results'[Measured] = {new}
        /\ \A c \in Configs : c # Measured => results'[c] = results[c]
    BY <1>1, <2>1, <2>2
  <2>4. new.attempts = Attempts /\ new.config = RunAs
    BY <2>1
  <2> HIDE DEF new
  <2>5. \A v \in Versions : Has(v)' <=> Has(v)
    BY <2>1 DEF Has
  <2>6. Measured = Builtin \/ Has(Measured)
    BY <1>2 DEF Measured, Suites, IInv, CandInv
  <2>7. \A v \in Versions : decided[v] # "none" => v # Measured
    BY <2>2 DEF IInv, HasNumbers
  <2>8. pass.side = "cand" => \A r \in results'[pass.cand] : r.config = pass.cand
    BY <2>3, <2>4 DEF Measured, RunAs
  <2>9. \A v \in Versions : v \in Configs /\ v # Builtin
    BY DEF Configs, Versions, Builtin
  <2>10. \A c \in Configs : \A r \in results'[c] : r.attempts = Attempts
    BY <2>3, <2>4 DEF Suites
  <2>11. \A v \in Versions : ~ Has(v)' => results'[v] = {}
    BY <2>3, <2>5, <2>6, <2>9 DEF Suites
  <2>12. \A v \in Versions : decided'[v] # "none" => \A r \in results'[v] : r.config = v
    BY <2>1, <2>3, <2>7, <2>9 DEF Suites
  <2>13. (pass.base # Builtin => Has(pass.base))'
    BY <2>1 DEF Suites, Has
  <2> QED
    BY <2>1, <2>8, <2>10, <2>11, <2>12, <2>13 DEF Suites, Measuring
<1>20. CASE Put
  <2>1. PICK v \in Versions :
          /\ ~ Has(v) /\ pass' = [pass EXCEPT !.at = "lookup", !.side = "cand", !.cand = v]
          /\ version' = [version EXCEPT ![v] = [NoVersion EXCEPT !.state = "candidate", !.parent = pass.base]]
          /\ UNCHANGED <<decided, results>>
    BY <1>20 DEF Put
  <2>2. pass'.at = "lookup" /\ pass'.side = "cand" /\ pass'.cand = v /\ pass'.base = pass.base
    BY <1>1, <2>1 DEF Pass
  <2>3. results[v] = {}
    BY <2>1 DEF Suites
  <2>4. \A u \in Versions : Has(u) => Has(u)'
    BY <1>1, <2>1 DEF Has
  <2> QED
    BY <1>2, <2>1, <2>2, <2>3, <2>4, SuitesKept DEF Measuring
<1>21. CASE Decide
  <2>1. PICK b \in BOOLEAN :
          /\ decided' = [decided EXCEPT ![pass.cand] = IF b THEN "promote" ELSE "reject"]
          /\ pass' = [pass EXCEPT !.at = "link", !.promote = b] /\ pass.at = "decide"
          /\ UNCHANGED <<version, results>>
    BY <1>21 DEF Decide, At
  <2>2. /\ pass'.at = "link" /\ pass'.side = pass.side /\ pass'.cand = pass.cand /\ pass'.base = pass.base
        /\ pass.side = "cand"
    BY <1>1, <2>1 DEF Pass, IInv, CandInv
  <2>3. \A u \in Versions : decided'[u] # "none" => decided[u] # "none" \/ u = pass.cand
    BY <2>1 DEF IInv, TypeOK
  <2> QED
    BY <1>2, <1>9, <2>1, <2>2, <2>3, SuitesKept DEF Measuring
<1>22. CASE LinkDecision
  <2>1. /\ UNCHANGED <<decided, results>> /\ version' = [version EXCEPT ![pass.cand].linked = TRUE]
        /\ pass'.base = pass.base /\ pass'.side = pass.side /\ pass'.cand = pass.cand
        /\ pass'.at = "verdict"
    BY <1>1, <1>22 DEF LinkDecision, Pass
  <2>2. \A u \in Versions : version'[u].state = version[u].state
    BY <1>1, <2>1 DEF Version
  <2>3. \A u \in Versions : Has(u) => Has(u)'
    BY <2>2 DEF Has
  <2> QED
    BY <1>4, <2>1, <2>3 DEF Measuring
<1>23. CASE Verdict \/ RetireBaseline
  <2>1. /\ UNCHANGED <<decided, results>>
        /\ pass'.base = pass.base /\ pass'.side = pass.side /\ pass'.cand = pass.cand
        /\ pass'.at \in {"retire", "ended"}
    BY <1>1, <1>23 DEF Verdict, RetireBaseline, Pass
  <2>2. \E c \in Configs, s \in {"active", "rejected", "retired"} : version' = Moved(c, s)
    BY <1>2, <1>23, Zenon DEF Verdict, RetireBaseline
  <2>3. \A u \in Versions : Has(u) => Has(u)'
    BY <1>7, <1>8, <2>2
  <2> QED
    BY <1>4, <2>1, <2>3 DEF Measuring
<1>24. CASE \E v \in Versions : Promote(v) \/ Retire(v)
  <2>1. /\ UNCHANGED <<decided, results, pass>>
        /\ \E c \in Configs, s \in {"active", "rejected", "retired"} : version' = Moved(c, s)
    BY <1>24 DEF Promote, Retire, Configs
  <2>2. \A u \in Versions : Has(u) => Has(u)'
    BY <1>7, <1>8, <2>1
  <2> QED
    BY <1>6, <2>1, <2>2
<1>25. CASE RollBack \/ RollStep \/ RollFails
  <2>1. UNCHANGED <<decided, results, pass>>
    BY <1>25 DEF RollBack, RollStep, RollFails, store
  <2>2. roll.from \in Configs /\ roll.to \in Configs
    BY DEF IInv, TypeOK, Rollback
  <2>3. UNCHANGED version \/ \E c \in Configs, s \in {"active", "rejected", "retired"} : version' = Moved(c, s)
    BY <1>25, <2>2 DEF RollBack, RollStep, RollFails, store
  <2>4. \A u \in Versions : Has(u) => Has(u)'
    BY <1>7, <1>8, <1>9, <2>3
  <2> QED
    BY <1>6, <2>1, <2>4
<1> QED
  BY <1>10, <1>11, <1>12, <1>13, <1>14, <1>15, <1>16, <1>17, <1>18, <1>19, <1>20, <1>21, <1>22, <1>23,
     <1>24, <1>25 DEF Next, Step

-----------------------------------------------------------------------------
(* The theorems. *)

LEMMA StepKeeps == IInv /\ [Next]_vars => IInv'
<1> SUFFICES ASSUME IInv, [Next]_vars PROVE IInv'
  OBVIOUS
<1>1. CASE UNCHANGED vars
  BY <1>1 DEF vars, store, history, IInv, TypeOK, Chain, Held, CandInv, StageInv, HasNumbers,
              OneActive, ActiveOnes, Earned, Has
<1>2. CASE Begin
  BY <1>2, BeginKeeps
<1>3. CASE Step
  BY <1>3, ReadKeeps, AttemptKeeps, StoreKeeps, PutKeeps, DecideKeeps, LinkKeeps, VerdictKeeps, EndKeeps
  DEF Step
<1>4. CASE Consent
  BY <1>4, ReadKeeps
<1>5. CASE Stop \/ StopRun \/ Lose
  BY <1>5, EndKeeps
<1>6. CASE RollBack \/ RollStep \/ RollFails
  BY <1>6, RollKeeps
<1>7. CASE \E v \in Versions : Promote(v) \/ Retire(v)
  BY <1>7, ClickKeeps
<1> QED
  BY <1>1, <1>2, <1>3, <1>4, <1>5, <1>6, <1>7 DEF Next

\* The invariant holds throughout, whatever the user does and wherever the webview is lost.
THEOREM Invariance == Spec => []IInv
  BY Initially, StepKeeps, PTL DEF Spec

\* The types of the store's rows and of the pass, for any suite and any number of versions
\* (TypeOK, axiom.rs and pipeline.ts).
THEOREM TypeCorrect == Spec => []TypeOK
  BY Invariance, PTL DEF IInv

\* axiom.rs:11-15: at most one version is active, through promotions, verdicts and rollbacks that
\* interleave.
THEOREM OneVersionRuns == Spec => []OneActive
  BY Invariance, PTL DEF IInv

\* pipeline.ts:355-363: what runs has its verdict on record, or the user's hand.
THEOREM VerdictsAreOnRecord == Spec => []MovesAreDecided
  BY Invariance, Enough, PTL

\* pipeline.ts:300-316, 427-433: wherever passes were stopped, failed or were lost, a decision is on
\* a candidate and a baseline measured over every attempt of the suite, the candidate under its own
\* configuration.
THEOREM DecisionsAreOnFullSuites == Spec => []JudgedOnFullSuites
<1>1. Init => Suites
  BY InitialSuites
<1>2. IInv /\ Suites /\ [Next]_vars => Suites'
  BY SuitesStep
<1>3. IInv /\ Suites => JudgedOnFullSuites
  BY JudgedFully
<1> QED
  BY <1>1, <1>2, <1>3, Invariance, PTL DEF Spec

\* Axiom.tsx:214-216: every pass becomes a row, or was lost with the webview or with its write.
THEOREM PassesBecomeRows == Spec => []PassesAreRecorded
<1>1. Init => PassesAreRecorded
  BY DEF Init, PassesAreRecorded, Running, NoPass
<1>2. PassesAreRecorded /\ IInv /\ [Next]_vars => PassesAreRecorded'
  <2> SUFFICES ASSUME PassesAreRecorded, IInv, [Next]_vars PROVE PassesAreRecorded'
    OBVIOUS
  <2>1. audits \in Nat /\ writing \in Nat /\ passes \in Nat /\ lost \in Nat /\ pass \in Pass
    BY DEF IInv, TypeOK
  <2>2. CASE Begin
    <3>1. passes' = passes + 1 /\ ~ Running /\ pass'.at = "config" /\ UNCHANGED <<audits, writing, lost>>
      BY <2>2 DEF Begin, NoPass, store
    <3> QED
      BY <2>1, <3>1 DEF PassesAreRecorded, Running
  <2>3. CASE Finally
    <3>1. writing' = writing + 1 /\ Running /\ pass'.at = "idle" /\ UNCHANGED <<audits, passes, lost>>
      BY <2>3 DEF Finally, At, Running, NoPass, store, history
    <3> QED
      BY <2>1, <3>1 DEF PassesAreRecorded, Running
  <2>4. CASE Audit
    <3>1. /\ writing' = writing - 1 /\ UNCHANGED <<pass, passes>>
          /\ \/ audits' = audits + 1 /\ lost' = lost
             \/ lost' = lost + 1 /\ audits' = audits
      BY <2>4 DEF Audit
    <3> QED
      BY <2>1, <3>1 DEF PassesAreRecorded, Running
  <2>5. CASE Lose
    <3>1. /\ lost' = lost + writing + (IF Running THEN 1 ELSE 0)
          /\ writing' = 0 /\ pass'.at = "idle" /\ UNCHANGED <<audits, passes>>
      BY <2>5 DEF Lose, NoPass, store
    <3> QED
      BY <2>1, <3>1 DEF PassesAreRecorded, Running
  <2>6. ASSUME UNCHANGED <<audits, writing, passes, lost>>, Running' = Running PROVE PassesAreRecorded'
    BY <2>6 DEF PassesAreRecorded
  <2>7. CASE UNCHANGED vars
    BY <2>6, <2>7 DEF vars, store, history, Running
  <2>8. CASE ReadConfig \/ ReadVersion \/ LookUp \/ NextAttempt \/ MakeDir \/ AttemptEnds \/ Consent
    BY <2>1, <2>6, <2>8
    DEF ReadConfig, ReadVersion, LookUp, NextAttempt, MakeDir, AttemptEnds, Consent, At, Running,
        store, history, Pass, AfterMeasuring
  <2>9. CASE Store \/ Design \/ Put \/ Decide \/ LinkDecision \/ Verdict \/ RetireBaseline \/ Fail
    BY <2>1, <2>6, <2>9
    DEF Store, Design, Put, Decide, LinkDecision, Verdict, RetireBaseline, Fail, At, Running,
        store, history, Pass, AfterMeasuring
  <2>10. CASE Stop \/ StopRun
    BY <2>1, <2>6, <2>10 DEF Stop, StopRun, At, Running, store, history, Pass
  <2>11. CASE RollBack \/ RollStep \/ RollFails \/ (\E v \in Versions : Promote(v) \/ Retire(v))
    BY <2>6, <2>11 DEF RollBack, RollStep, RollFails, Promote, Retire, Running, store, history
  <2> QED
    BY <2>2, <2>3, <2>4, <2>5, <2>7, <2>8, <2>9, <2>10, <2>11 DEF Next, Step
<1> QED
  BY <1>1, <1>2, Invariance, PTL DEF Spec
=============================================================================
