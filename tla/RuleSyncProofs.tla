---------------------------- MODULE RuleSyncProofs ----------------------------
(***************************************************************************)
(* Theorems about RuleSync, for any rules, any number of concurrent        *)
(* console requests, and any bounds.                                       *)
(***************************************************************************)
EXTENDS RuleSync, TLAPS

(* What the console and the masker make of a table.                        *)
Tables(n) == [content : 0..n, enabled : BOOLEAN]

LEMMA ActiveIsMap ==
    ASSUME NEW t, NEW n, IsMap(t, Tables(n))
    PROVE  IsMap(Active(t), 0..n)
BY DEF IsMap, Active, Tables

LEMMA WithIsMap ==
    ASSUME NEW t, NEW S, IsMap(t, S), NEW r \in Rules, NEW row \in S
    PROVE  IsMap(With(t, r, row), S)
BY DEF IsMap, With

LEMMA WithoutIsMap ==
    ASSUME NEW t, NEW S, IsMap(t, S), NEW r
    PROVE  IsMap(Without(t, r), S)
BY DEF IsMap, Without

LEMMA MapGrows ==
    ASSUME NEW t, NEW S, NEW T, S \subseteq T, IsMap(t, S)
    PROVE  IsMap(t, T)
BY DEF IsMap

LEMMA NothingIsMap ==
    ASSUME NEW S
    PROVE  IsMap(Nothing, S)
BY DEF IsMap, Nothing

LEMMA SaveKeepsTypes ==
    ASSUME TypeOK, NEW e \in Editors, NEW t, Idle(e), Save(t),
           IsMap(t, Tables(writes + 1)), removed' \subseteq Rules,
           pc' \in {pc, [pc EXCEPT ![e] = "saved"]}
    PROVE  TypeOK'
<1> USE DEF TypeOK
<1>1. /\ writes < MaxWrites /\ writes' = writes + 1 /\ table' = t
      /\ held' = held \cup {Active(t)} /\ stale' \subseteq Editors
      /\ UNCHANGED <<boot, toSeed, starts, masker, snapshot, behind>>
      /\ wiped' \in BOOLEAN
  BY DEF Save, bootVars
<1>2. writes \in Nat /\ writes' \in 0..MaxWrites /\ 0..writes \subseteq 0..(writes + 1)
  BY <1>1, BoundsAssumption
<1>3. Contents \subseteq Contents'
  BY <1>1, <1>2 DEF Contents
<1>4. IsMap(table', [content : Contents', enabled : BOOLEAN])
  BY <1>1 DEF Contents, Tables
<1>5. IsMap(masker', Contents') /\ \A d \in Editors : IsMap(snapshot'[d], Contents')
  BY <1>1, <1>3, MapGrows
<1>6. \A rules \in held' : IsMap(rules, Contents')
  <2>1. \A rules \in held : IsMap(rules, Contents')
    BY <1>3, MapGrows
  <2>2. IsMap(Active(t), Contents')
    BY <1>1, ActiveIsMap DEF Contents
  <2> QED BY <1>1, <2>1, <2>2
<1>7. \A rules, S : IsMap(rules, S)' <=> IsMap(rules, S)
  BY DEF IsMap
<1> QED BY <1>1, <1>2, <1>4, <1>5, <1>6 DEF IsMap

LEMMA EditKeepsTypes ==
    ASSUME TypeOK, NEW e \in Editors, Edit(e)
    PROVE  TypeOK'
<1> USE DEF TypeOK
<1>1. /\ writes + 1 \in 0..(writes + 1) /\ 0..writes \subseteq 0..(writes + 1)
  BY BoundsAssumption
<1>2. IsMap(table, Tables(writes + 1))
  <2>1. IsMap(table, Tables(writes)) /\ Tables(writes) \subseteq Tables(writes + 1)
    BY <1>1 DEF Contents, Tables
  <2> QED BY <2>1, MapGrows
<1>3. \A on \in BOOLEAN : Row(writes + 1, on) \in Tables(writes + 1)
  BY <1>1 DEF Row, Tables
<1>4. ASSUME NEW r \in Rules, NEW on \in BOOLEAN, CreateRule(e, r, on) PROVE TypeOK'
  <2>1. IsMap(With(table, r, Row(writes + 1, on)), Tables(writes + 1))
    BY <1>2, <1>3, WithIsMap
  <2> QED BY <1>4, <2>1, SaveKeepsTypes DEF CreateRule
<1>5. ASSUME NEW r \in Rules, NEW new \in Rules, NEW on \in BOOLEAN, UpdateRule(e, r, new, on)
      PROVE  TypeOK'
  <2>1. IsMap(Without(table, r), Tables(writes + 1))
    BY <1>2, WithoutIsMap
  <2>2. IsMap(With(Without(table, r), new, Row(writes + 1, on)), Tables(writes + 1))
    BY <1>3, <2>1, WithIsMap
  <2>3. removed' \subseteq Rules
    BY <1>5 DEF UpdateRule
  <2> QED BY <1>2, <1>5, <2>2, <2>3, SaveKeepsTypes DEF UpdateRule
<1>6. ASSUME NEW r \in Rules, DeleteRule(e, r) PROVE TypeOK'
  <2>1. IsMap(Without(table, r), Tables(writes + 1))
    BY <1>2, WithoutIsMap
  <2> QED BY <1>6, <2>1, SaveKeepsTypes DEF DeleteRule
<1> QED BY <1>4, <1>5, <1>6 DEF Edit

LEMMA TypeStep ==
    ASSUME TypeOK, [Next]_vars
    PROVE  TypeOK'
<1> USE DEF TypeOK
<1>1. ASSUME UNCHANGED storeVars
      PROVE  /\ writes' \in 0..MaxWrites /\ Contents' = Contents
             /\ IsMap(table, [content : Contents, enabled : BOOLEAN])'
             /\ removed' \subseteq Rules /\ wiped' \in BOOLEAN
  BY <1>1 DEF storeVars, Contents, IsMap
<1>2. IsMap(Active(table), Contents) /\ \A S : IsMap(Nothing, S)
  BY ActiveIsMap, NothingIsMap DEF Contents, Tables
<1>3. 0 \in Contents /\ Contents = 0..writes
  BY BoundsAssumption DEF Contents
<1>4. CASE Start
  BY <1>1, <1>4, BoundsAssumption DEF Start, IsMap
<1>5. CASE Load
  <2>1. IsMap([r \in ConfigRules |-> 0], Contents)
    BY <1>3, RulesAssumption DEF IsMap
  <2>2. /\ UNCHANGED <<toSeed, starts, pc, snapshot, stale>> /\ UNCHANGED storeVars
        /\ boot' = "up" /\ behind' \in {"no", "failed"}
        /\ masker' \in {Active(table), [r \in ConfigRules |-> 0]}
        /\ held' = {Active(table), masker'}
    BY <1>5 DEF Load
  <2> QED BY <1>1, <1>2, <2>1, <2>2 DEF IsMap
<1>6. CASE Crash
  BY <1>1, <1>2, <1>6 DEF Crash, IsMap
<1>7. ASSUME NEW r \in Rules, SeedRule(r) PROVE TypeOK'
  <2>1. IsMap(With(table, r, Row(0, TRUE)), [content : Contents, enabled : BOOLEAN])
    BY <1>3, WithIsMap DEF Row
  <2>2. /\ UNCHANGED <<writes, removed, wiped, boot, starts, masker, pc, snapshot,
                       held, stale, behind>>
        /\ toSeed' \subseteq ConfigRules
        /\ table' \in {table, With(table, r, Row(0, TRUE))}
    BY <1>7 DEF SeedRule
  <2> QED BY <2>1, <2>2 DEF Contents, IsMap
<1>8. ASSUME NEW e \in Editors, onConfigReload(e) \/ ListRulesFails(e) PROVE TypeOK'
  BY <1>1, <1>8 DEF onConfigReload, ListRulesFails, bootVars, IsMap
<1>9. ASSUME NEW e \in Editors, ListRules(e) PROVE TypeOK'
  <2>1. /\ UNCHANGED storeVars /\ UNCHANGED <<boot, toSeed, starts, masker, held, behind>>
        /\ snapshot' = [snapshot EXCEPT ![e] = Active(table)]
        /\ pc' \in [Editors -> {"idle", "saved", "listed"}] /\ stale' \subseteq Editors
    BY <1>9 DEF ListRules, bootVars
  <2>2. \A d \in Editors : snapshot'[d] \in {snapshot[d], Active(table)}
    BY <2>1
  <2> QED BY <1>1, <1>2, <2>1, <2>2 DEF IsMap
<1>10. ASSUME NEW e \in Editors, UpdateMasker(e) PROVE TypeOK'
  <2>1. /\ UNCHANGED storeVars /\ UNCHANGED <<boot, toSeed, starts, held>>
        /\ masker' = snapshot[e] /\ behind' \in {"no", "failed", "overlap"}
        /\ snapshot' = [snapshot EXCEPT ![e] = Nothing]
        /\ pc' \in [Editors -> {"idle", "saved", "listed"}] /\ stale' \subseteq Editors
    BY <1>10 DEF UpdateMasker, Installed, bootVars
  <2>2. \A d \in Editors : snapshot'[d] \in {snapshot[d], Nothing}
    BY <2>1
  <2> QED BY <1>1, <1>2, <2>1, <2>2 DEF IsMap
<1>11. CASE UNCHANGED vars
  BY <1>1, <1>11 DEF vars, bootVars, IsMap
<1> QED BY <1>4, <1>5, <1>6, <1>7, <1>8, <1>9, <1>10, <1>11, EditKeepsTypes
        DEF Next, StaysDown

(* Tables, lists on their way and the masker map rule names to the content *)
(* of writes that took place.                                              *)
THEOREM TypeCorrect == Spec => []TypeOK
<1>1. Init => TypeOK
  <2> SUFFICES ASSUME Init PROVE TypeOK
    OBVIOUS
  <2>1. \A S : IsMap(Nothing, S)
    BY NothingIsMap
  <2>2. \A e \in Editors : snapshot[e] = Nothing
    BY DEF Init
  <2>3. \A e \in Editors : IsMap(snapshot[e], Contents)
    BY <2>1, <2>2
  <2>4. IsMap(table, [content : Contents, enabled : BOOLEAN]) /\ IsMap(masker, Contents)
    BY <2>1 DEF Init
  <2>5. \A rules \in held : IsMap(rules, Contents)
    BY <2>1 DEF Init
  <2>6. /\ writes \in 0..MaxWrites /\ starts \in 0..MaxStarts /\ toSeed \subseteq ConfigRules
        /\ DOMAIN snapshot = Editors /\ pc \in [Editors -> {"idle", "saved", "listed"}]
    BY BoundsAssumption DEF Init
  <2>7. /\ boot \in {"down", "seeding", "up"} /\ stale \subseteq Editors
        /\ behind \in {"no", "failed", "overlap"} /\ removed \subseteq Rules
        /\ wiped \in BOOLEAN
    BY DEF Init
  <2> QED BY <2>3, <2>4, <2>5, <2>6, <2>7 DEF TypeOK
<1>2. TypeOK /\ [Next]_vars => TypeOK'
  BY TypeStep
<1> QED BY <1>1, <1>2, PTL DEF Spec

-----------------------------------------------------------------------------
(* What makes MaskerWasTable inductive: the current table and every list   *)
(* about to be installed are among those held since the start.             *)
HeldInv ==
    /\ MaskerWasTable
    /\ pc \in [Editors -> {"idle", "saved", "listed"}]
    /\ boot # "up" => \A e \in Editors : pc[e] = "idle"
    /\ boot = "up" => Active(table) \in held
    /\ \A e \in Editors : pc[e] = "listed" => snapshot[e] \in held
    /\ DOMAIN snapshot = Editors

LEMMA HeldStep ==
    ASSUME HeldInv, [Next]_vars
    PROVE  HeldInv'
<1> USE DEF HeldInv, MaskerWasTable
<1>1. CASE Start
  BY <1>1 DEF Start, storeVars
<1>2. CASE Load
  BY <1>2 DEF Load, storeVars
<1>3. CASE Crash
  BY <1>3 DEF Crash, storeVars
<1>4. ASSUME NEW r \in Rules, SeedRule(r) PROVE HeldInv'
  BY <1>4 DEF SeedRule
<1>5. ASSUME NEW e \in Editors, NEW t, Idle(e), Save(t), pc' = [pc EXCEPT ![e] = "saved"]
      PROVE  HeldInv'
  BY <1>5 DEF Idle, Save, bootVars
<1>6. ASSUME NEW e \in Editors, Edit(e) PROVE HeldInv'
  <2>1. ASSUME NEW r \in Rules, NEW on \in BOOLEAN, CreateRule(e, r, on) PROVE HeldInv'
    BY <1>5, <2>1 DEF CreateRule
  <2>2. ASSUME NEW r \in Rules, NEW new \in Rules, NEW on \in BOOLEAN,
               UpdateRule(e, r, new, on)
        PROVE  HeldInv'
    BY <1>5, <2>2 DEF UpdateRule
  <2>3. ASSUME NEW r \in Rules, DeleteRule(e, r) PROVE HeldInv'
    BY <1>5, <2>3 DEF DeleteRule
  <2> QED BY <1>6, <2>1, <2>2, <2>3 DEF Edit
<1>7. ASSUME NEW e \in Editors, onConfigReload(e) PROVE HeldInv'
  BY <1>7 DEF onConfigReload, Idle, storeVars, bootVars
<1>8. ASSUME NEW e \in Editors, ListRules(e) PROVE HeldInv'
  BY <1>8 DEF ListRules, storeVars, bootVars
<1>9. ASSUME NEW e \in Editors, ListRulesFails(e) PROVE HeldInv'
  BY <1>9 DEF ListRulesFails, storeVars, bootVars
<1>10. ASSUME NEW e \in Editors, UpdateMasker(e) PROVE HeldInv'
  BY <1>10 DEF UpdateMasker, Installed, storeVars, bootVars
<1>11. CASE UNCHANGED vars
  BY <1>11 DEF vars, storeVars, bootVars
<1> QED BY <1>1, <1>2, <1>3, <1>4, <1>6, <1>7, <1>8, <1>9, <1>10, <1>11
        DEF Next, StaysDown

(* No call is ever masked by a mixture of two versions of the rules, or by *)
(* part of one, however console requests and reloads interleave.           *)
THEOREM MaskerWasTableAlways == Spec => []MaskerWasTable
<1>1. Init => HeldInv
  BY DEF Init, HeldInv, MaskerWasTable
<1>2. HeldInv /\ [Next]_vars => HeldInv'
  BY HeldStep
<1>3. HeldInv => MaskerWasTable
  BY DEF HeldInv
<1> QED BY <1>1, <1>2, <1>3, PTL DEF Spec

-----------------------------------------------------------------------------
(* CurrentUnlessOverlap is inductive: a request leaves a lagging masker    *)
(* behind only by failing or by installing an overtaken list; a list that  *)
(* was not overtaken is that of the table.                                 *)
CurrentInv ==
    /\ CurrentUnlessOverlap
    /\ pc \in [Editors -> {"idle", "saved", "listed"}]
    /\ DOMAIN snapshot = Editors
    /\ boot # "up" => \A e \in Editors : pc[e] = "idle"
    /\ \A e \in Editors :
          pc[e] = "listed" /\ e \notin stale => snapshot[e] = Active(table)

LEMMA CurrentStep ==
    ASSUME CurrentInv, [Next]_vars
    PROVE  CurrentInv'
<1> USE DEF CurrentInv, CurrentUnlessOverlap, AtRest
<1>1. CASE Start
  BY <1>1 DEF Start, storeVars
<1>2. CASE Load
  BY <1>2 DEF Load, storeVars
<1>3. CASE Crash
  BY <1>3 DEF Crash, storeVars
<1>4. ASSUME NEW r \in Rules, SeedRule(r) PROVE CurrentInv'
  BY <1>4 DEF SeedRule
<1>5. ASSUME NEW e \in Editors, NEW t, Idle(e), Save(t), pc' = [pc EXCEPT ![e] = "saved"]
      PROVE  CurrentInv'
  <2>1. pc' \in [Editors -> {"idle", "saved", "listed"}] /\ pc'[e] = "saved" /\ boot' = "up"
    BY <1>5 DEF Idle, Save, bootVars
  <2>2. \A d \in Editors : pc'[d] = "listed" => d \in stale'
    BY <1>5 DEF Save
  <2> QED BY <1>5, <2>1, <2>2 DEF Save
<1>6. ASSUME NEW e \in Editors, Edit(e) PROVE CurrentInv'
  <2>1. ASSUME NEW r \in Rules, NEW on \in BOOLEAN, CreateRule(e, r, on) PROVE CurrentInv'
    BY <1>5, <2>1 DEF CreateRule
  <2>2. ASSUME NEW r \in Rules, NEW new \in Rules, NEW on \in BOOLEAN,
               UpdateRule(e, r, new, on)
        PROVE  CurrentInv'
    BY <1>5, <2>2 DEF UpdateRule
  <2>3. ASSUME NEW r \in Rules, DeleteRule(e, r) PROVE CurrentInv'
    BY <1>5, <2>3 DEF DeleteRule
  <2> QED BY <1>6, <2>1, <2>2, <2>3 DEF Edit
<1>11. ASSUME NEW e \in Editors, onConfigReload(e) PROVE CurrentInv'
  BY <1>11 DEF onConfigReload, Idle, storeVars, bootVars, Active
<1>7. ASSUME NEW e \in Editors, ListRules(e) PROVE CurrentInv'
  <2>1. /\ pc' = [pc EXCEPT ![e] = "listed"]
        /\ snapshot' = [snapshot EXCEPT ![e] = Active(table)]
        /\ stale' = stale \ {e}
        /\ table' = table /\ boot' = boot /\ boot = "up"
    BY <1>7 DEF ListRules, storeVars, bootVars
  <2>2. Active(table)' = Active(table)
    BY <2>1 DEF Active
  <2>3. pc'[e] = "listed" /\ snapshot'[e] = Active(table)
    BY <2>1
  <2>4. \A d \in Editors \ {e} : pc'[d] = pc[d] /\ snapshot'[d] = snapshot[d]
    BY <2>1
  <2>5. CurrentUnlessOverlap'
    BY <2>3
  <2>6. \A d \in Editors :
           pc'[d] = "listed" /\ d \notin stale' => snapshot'[d] = Active(table)'
    BY <2>1, <2>2, <2>3, <2>4
  <2>7. /\ pc' \in [Editors -> {"idle", "saved", "listed"}]
        /\ DOMAIN snapshot' = Editors
        /\ boot' = "up"
    BY <2>1
  <2> QED BY <2>5, <2>6, <2>7
<1>8. ASSUME NEW e \in Editors, ListRulesFails(e) PROVE CurrentInv'
  BY <1>8 DEF ListRulesFails, storeVars, bootVars, Active
<1>9. ASSUME NEW e \in Editors, UpdateMasker(e) PROVE CurrentInv'
  <2>1. /\ pc[e] = "listed" /\ pc' = [pc EXCEPT ![e] = "idle"]
        /\ snapshot' = [snapshot EXCEPT ![e] = Nothing]
        /\ stale' = stale \ {e}
        /\ masker' = snapshot[e] /\ table' = table /\ boot' = boot
    BY <1>9 DEF UpdateMasker, Installed, storeVars, bootVars
  <2>2. behind' = "no" => e \notin stale
    BY <1>9 DEF UpdateMasker, Installed
  <2>3. behind' = "no" => masker' = Active(table')
    BY <2>1, <2>2
  <2>4. Active(table') = Active(table)
    BY <2>1
  <2> QED BY <2>1, <2>3, <2>4
<1>10. CASE UNCHANGED vars
  BY <1>10 DEF vars, storeVars, bootVars
<1> QED BY <1>1, <1>2, <1>3, <1>4, <1>6, <1>7, <1>8, <1>9, <1>10, <1>11
        DEF Next, StaysDown

(* With no request in progress the masker has the rules of the table,      *)
(* unless a listing failed or a write overtook an install.                 *)
THEOREM CurrentUnlessOverlapAlways == Spec => []CurrentUnlessOverlap
<1>1. Init => CurrentInv
  BY DEF Init, CurrentInv, CurrentUnlessOverlap, AtRest
<1>2. CurrentInv /\ [Next]_vars => CurrentInv'
  BY CurrentStep
<1>3. CurrentInv => CurrentUnlessOverlap
  BY DEF CurrentInv
<1> QED BY <1>1, <1>2, <1>3, PTL DEF Spec

-----------------------------------------------------------------------------
(* What makes RemovedStaysRemoved inductive: a table the console never     *)
(* emptied is empty, or being seeded, only while nothing was removed.      *)
RemovedInv ==
    /\ RemovedStaysRemoved
    /\ ~wiped /\ DOMAIN table = {} => removed = {}
    /\ ~wiped /\ toSeed # {} => removed = {}
    /\ toSeed # {} => boot = "seeding"
    /\ wiped \in BOOLEAN

LEMMA RemovedStep ==
    ASSUME RemovedInv, [Next]_vars
    PROVE  RemovedInv'
<1> USE DEF RemovedInv, RemovedStaysRemoved
<1>1. CASE Start
  BY <1>1 DEF Start, storeVars
<1>2. CASE Load
  BY <1>2 DEF Load, storeVars
<1>3. CASE Crash
  BY <1>3 DEF Crash, storeVars
<1>4. ASSUME NEW r \in Rules, SeedRule(r) PROVE RemovedInv'
  <2>1. toSeed # {} /\ UNCHANGED <<wiped, removed, boot>> /\ toSeed' = toSeed \ {r}
    BY <1>4 DEF SeedRule
  <2> QED BY <2>1
<1>5. ASSUME NEW e \in Editors, NEW r \in Rules, NEW on \in BOOLEAN, CreateRule(e, r, on)
      PROVE  RemovedInv'
  <2>1. /\ DOMAIN table' = DOMAIN table \cup {r}
        /\ removed' = removed \ {r} /\ boot = "up"
        /\ UNCHANGED <<boot, toSeed>>
        /\ wiped' = wiped
    BY <1>5 DEF CreateRule, Save, With, Idle, bootVars
  <2> QED BY <2>1
<1>6. ASSUME NEW e \in Editors, NEW r \in Rules, NEW new \in Rules, NEW on \in BOOLEAN,
             UpdateRule(e, r, new, on)
      PROVE  RemovedInv'
  <2>1. boot = "up" /\ UNCHANGED <<boot, toSeed>>
    BY <1>6 DEF UpdateRule, Save, Idle, bootVars
  <2>2. CASE r \in DOMAIN table
    <3>1. /\ DOMAIN table' = (DOMAIN table \ {r}) \cup {new}
          /\ removed' = (removed \cup {r}) \ {new}
          /\ wiped' = wiped
      BY <1>6, <2>2 DEF UpdateRule, Save, With, Without
    <3> QED BY <2>1, <3>1
  <2>3. CASE r \notin DOMAIN table
    <3>1. table' = table /\ removed' = removed /\ wiped' = wiped
      BY <1>6, <2>3 DEF UpdateRule, Save
    <3> QED BY <2>1, <3>1
  <2> QED BY <2>2, <2>3
<1>7. ASSUME NEW e \in Editors, NEW r \in Rules, DeleteRule(e, r) PROVE RemovedInv'
  <2>1. /\ DOMAIN table' = DOMAIN table \ {r}
        /\ removed' = removed \cup ({r} \cap DOMAIN table) /\ boot = "up"
        /\ UNCHANGED <<boot, toSeed>>
        /\ wiped' = (wiped \/ (DOMAIN table # {} /\ DOMAIN table' = {}))
    BY <1>7 DEF DeleteRule, Save, Without, Idle, bootVars
  <2> QED BY <2>1
<1>8. ASSUME NEW e \in Editors,
             onConfigReload(e) \/ ListRules(e) \/ ListRulesFails(e) \/ UpdateMasker(e)
      PROVE  RemovedInv'
  BY <1>8 DEF onConfigReload, ListRules, ListRulesFails, UpdateMasker, Installed,
              storeVars, bootVars
<1>9. CASE UNCHANGED vars
  BY <1>9 DEF vars, storeVars, bootVars
<1> QED BY <1>1, <1>2, <1>3, <1>4, <1>5, <1>6, <1>7, <1>8, <1>9 DEF Next, Edit, StaysDown

(* Restarts, and crashes in the middle of seeding, never bring back a rule *)
(* the console removed, unless the console once emptied the table.         *)
THEOREM RemovedStaysRemovedAlways == Spec => []RemovedStaysRemoved
<1>1. Init => RemovedInv
  BY DEF Init, RemovedInv, RemovedStaysRemoved, Nothing
<1>2. RemovedInv /\ [Next]_vars => RemovedInv'
  BY RemovedStep
<1>3. RemovedInv => RemovedStaysRemoved
  BY DEF RemovedInv
<1> QED BY <1>1, <1>2, <1>3, PTL DEF Spec
=============================================================================
