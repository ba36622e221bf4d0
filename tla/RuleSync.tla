------------------------------- MODULE RuleSync -------------------------------
(***************************************************************************)
(* The masking rules: rows of the mask_rules table, edited by the console  *)
(* and seeded from config.yaml, and the compiled copy the masker works     *)
(* with.  Every console write saves a row, then lists the table, then      *)
(* swaps the list into the masker; a config reload does the last two.      *)
(* Nothing holds a lock over these steps, so requests may interleave       *)
(* between any two of them.                                                *)
(*                                                                         *)
(* The table survives a restart, the masker does not.  The driver is       *)
(* sqlite or postgres (unique rule names, an UPDATE or DELETE of a missing *)
(* row is no error).  A row's content is the number of the write that      *)
(* saved it.                                                               *)
(***************************************************************************)
EXTENDS Naturals

CONSTANTS
    Rules,        \* rule names
    ConfigRules,  \* the rules of config.yaml and its presets
    Editors,      \* goroutines that serve console requests or config reloads
    MaxWrites,    \* bound on the writes of the console
    MaxStarts     \* bound on the times the process starts

ASSUME RulesAssumption == ConfigRules \subseteq Rules /\ ConfigRules # {}
ASSUME BoundsAssumption == MaxWrites \in Nat /\ MaxStarts \in Nat

VARIABLES
    table,      \* rule name -> its row
    masker,     \* rule name -> the content the masker compiled
    boot,       \* where New is: "down", "seeding", "loading", "up"
    toSeed,     \* the config rules seedConfigRules has yet to copy
    pc,         \* where a goroutine is
    snapshot,   \* what reloadRules listed
    writes,     \* history: number of console writes
    starts,     \* history: number of process starts
    held,       \* history: what the table has made active since the start
    stale,      \* history: goroutines whose snapshot a later write has overtaken
    behind,     \* history: why the masker may lag behind the table
    removed,    \* history: rules the console deleted or renamed, not put back
    wiped       \* history: whether the console ever emptied the table

storeVars == <<table, writes, removed, wiped>>
bootVars == <<boot, toSeed, starts>>
vars == <<storeVars, bootVars, masker, pc, snapshot, held, stale, behind>>

Nothing == [r \in {} |-> 0]
Row(n, on) == [content |-> n, enabled |-> on]
With(t, r, row) == [q \in DOMAIN t \cup {r} |-> IF q = r THEN row ELSE t[q]]
Without(t, r) == [q \in DOMAIN t \ {r} |-> t[q]]

(* What Masker.Update compiles of a list of rules: the enabled ones.       *)
Active(t) == [r \in {q \in DOMAIN t : t[q].enabled} |-> t[r].content]

Init ==
    /\ table = Nothing /\ writes = 0 /\ removed = {} /\ wiped = FALSE
    /\ boot = "down" /\ toSeed = {} /\ starts = 0
    /\ masker = Nothing /\ held = {Nothing} /\ stale = {} /\ behind = "no"
    /\ pc = [e \in Editors |-> "idle"]
    /\ snapshot = [e \in Editors |-> Nothing]

-----------------------------------------------------------------------------
(* New: seedConfigRules and the first reloadRules, before anything else    *)
(* runs; the process may die between any two rows.                         *)

\* Mutant: the rows that are there already are not looked at.
StartAlwaysSeeds ==
    /\ boot = "down" /\ starts < MaxStarts
    /\ boot' = "seeding" /\ starts' = starts + 1
    /\ toSeed' = ConfigRules \ DOMAIN table
    /\ UNCHANGED <<storeVars, masker, pc, snapshot, held, stale, behind>>

\* Mutant: every preset is seeded, those config.yaml does not name too.
StartSeedsAll ==
    /\ boot = "down" /\ starts < MaxStarts
    /\ boot' = "seeding" /\ starts' = starts + 1
    /\ toSeed' \in IF DOMAIN table = {} THEN {{}, Rules} ELSE {{}}
    /\ UNCHANGED <<storeVars, masker, pc, snapshot, held, stale, behind>>

Start ==          \* an existing row, or a failed ListRules, ends the seeding
    /\ boot = "down" /\ starts < MaxStarts
    /\ boot' = "seeding" /\ starts' = starts + 1
    /\ toSeed' \in IF DOMAIN table = {} THEN {{}, ConfigRules} ELSE {{}}
    /\ UNCHANGED <<storeVars, masker, pc, snapshot, held, stale, behind>>

SeedRule(r) ==    \* a CreateRule that fails is logged and skipped
    /\ boot = "seeding" /\ r \in toSeed
    /\ toSeed' = toSeed \ {r}
    /\ table' \in {table, With(table, r, Row(0, TRUE))}
    /\ UNCHANGED <<writes, removed, wiped, boot, starts, masker, pc, snapshot,
                   held, stale, behind>>

(* Load the table into the masker, or the rules of config.yaml if it       *)
(* cannot be read.                                                         *)
Load ==
    /\ boot = "seeding" /\ toSeed = {}
    /\ boot' = "up"
    /\ \/ masker' = Active(table) /\ behind' = "no"
       \/ masker' = [r \in ConfigRules |-> 0] /\ behind' = "failed"
    /\ held' = {Active(table), masker'}
    /\ UNCHANGED <<storeVars, toSeed, starts, pc, snapshot, stale>>

Crash ==          \* or an orderly stop: the requests in progress go with it
    /\ boot # "down"
    /\ boot' = "down" /\ toSeed' = {}
    /\ masker' = Nothing /\ held' = {Nothing} /\ stale' = {} /\ behind' = "no"
    /\ pc' = [e \in Editors |-> "idle"]
    /\ snapshot' = [e \in Editors |-> Nothing]
    /\ UNCHANGED <<storeVars, starts>>

StaysDown == boot = "down" /\ starts = MaxStarts /\ UNCHANGED vars

-----------------------------------------------------------------------------
(* The console's writes.  One that the store refuses changes nothing.      *)

Idle(e) == boot = "up" /\ pc[e] = "idle"

Save(t) ==
    /\ writes < MaxWrites
    /\ writes' = writes + 1
    /\ table' = t
    /\ held' = held \cup {Active(t)}
    /\ stale' = stale \cup {e \in Editors : pc[e] = "listed"}
    /\ wiped' = (wiped \/ (DOMAIN table # {} /\ DOMAIN t = {}))
    /\ UNCHANGED <<bootVars, masker, snapshot, behind>>

CreateRule(e, r, on) ==
    /\ Idle(e) /\ r \notin DOMAIN table
    /\ Save(With(table, r, Row(writes + 1, on)))
    /\ removed' = removed \ {r}
    /\ pc' = [pc EXCEPT ![e] = "saved"]

(* An edit may rename its rule, to a name that is free.                    *)
UpdateRule(e, r, new, on) ==
    /\ Idle(e) /\ new \in {r} \cup (Rules \ DOMAIN table)
    /\ \/ /\ r \in DOMAIN table
          /\ Save(With(Without(table, r), new, Row(writes + 1, on)))
          /\ removed' = (removed \cup {r}) \ {new}
       \/ /\ r \notin DOMAIN table
          /\ Save(table)
          /\ UNCHANGED removed
    /\ pc' = [pc EXCEPT ![e] = "saved"]

\* Mutant: the deletion is not followed by reloadRules.
DeleteWithoutReload(e, r) ==
    /\ Idle(e)
    /\ Save(Without(table, r))
    /\ removed' = removed \cup ({r} \cap DOMAIN table)
    /\ UNCHANGED pc

DeleteRule(e, r) ==
    /\ Idle(e)
    /\ Save(Without(table, r))
    /\ removed' = removed \cup ({r} \cap DOMAIN table)
    /\ pc' = [pc EXCEPT ![e] = "saved"]

onConfigReload(e) ==   \* only its call of reloadRules touches the rules
    /\ Idle(e)
    /\ pc' = [pc EXCEPT ![e] = "saved"]
    /\ UNCHANGED <<storeVars, bootVars, masker, snapshot, held, stale, behind>>

-----------------------------------------------------------------------------
(* reloadRules.                                                            *)

ListRules(e) ==
    /\ pc[e] = "saved"
    /\ snapshot' = [snapshot EXCEPT ![e] = Active(table)]
    /\ stale' = stale \ {e}
    /\ pc' = [pc EXCEPT ![e] = "listed"]
    /\ UNCHANGED <<storeVars, bootVars, masker, held, behind>>

(* The request fails, though its row was saved.                            *)
ListRulesFails(e) ==
    /\ pc[e] = "saved"
    /\ pc' = [pc EXCEPT ![e] = "idle"]
    /\ behind' = "failed"
    /\ UNCHANGED <<storeVars, bootVars, masker, snapshot, held, stale>>

Installed(e, rules) ==
    /\ pc[e] = "listed"
    /\ masker' = rules
    /\ behind' = CASE e \notin stale -> "no"
                   [] behind = "failed" -> "failed"
                   [] OTHER -> "overlap"
    /\ pc' = [pc EXCEPT ![e] = "idle"]
    /\ snapshot' = [snapshot EXCEPT ![e] = Nothing]
    /\ stale' = stale \ {e}
    /\ UNCHANGED <<storeVars, bootVars, held>>

\* Mutant: the rules are added to those the masker has.
MergeRules(e) ==
    LET new == snapshot[e] IN
    Installed(e, [r \in DOMAIN new \cup DOMAIN masker |->
                     IF r \in DOMAIN new THEN new[r] ELSE masker[r]])

UpdateMasker(e) == Installed(e, snapshot[e])

-----------------------------------------------------------------------------
Edit(e) ==
    \/ \E r \in Rules, on \in BOOLEAN : CreateRule(e, r, on)
    \/ \E r, new \in Rules, on \in BOOLEAN : UpdateRule(e, r, new, on)
    \/ \E r \in Rules : DeleteRule(e, r)

Next ==
    \/ Start \/ Load \/ Crash \/ StaysDown
    \/ \E r \in Rules : SeedRule(r)
    \/ \E e \in Editors :
          \/ Edit(e) \/ onConfigReload(e)
          \/ ListRules(e) \/ ListRulesFails(e) \/ UpdateMasker(e)

Spec == Init /\ [][Next]_vars
-----------------------------------------------------------------------------
IsMap(f, S) == DOMAIN f \subseteq Rules /\ f \in [DOMAIN f -> S]
Contents == 0..writes

TypeOK ==
    /\ writes \in 0..MaxWrites /\ starts \in 0..MaxStarts
    /\ IsMap(table, [content : Contents, enabled : BOOLEAN])
    /\ IsMap(masker, Contents)
    /\ boot \in {"down", "seeding", "up"}
    /\ toSeed \subseteq ConfigRules
    /\ pc \in [Editors -> {"idle", "saved", "listed"}]
    /\ DOMAIN snapshot = Editors
    /\ \A e \in Editors : IsMap(snapshot[e], Contents)
    /\ \A rules \in held : IsMap(rules, Contents)
    /\ stale \subseteq Editors /\ behind \in {"no", "failed", "overlap"}
    /\ removed \subseteq Rules /\ wiped \in BOOLEAN

(* Calls are masked by a set of rules the table really held at some moment *)
(* since the start (or by config.yaml's, had the table been unreadable):   *)
(* never by a mixture of two edits or by part of one.                      *)
MaskerWasTable == masker \in held

(* When no request is in progress the masker works with the rules of the   *)
(* table, unless the last request to finish failed to list the table, or   *)
(* installed a list that a later write had overtaken.                      *)
AtRest == boot = "up" /\ \A e \in Editors : pc[e] = "idle"

CurrentUnlessOverlap == AtRest /\ behind = "no" => masker = Active(table)

(* Seeding never brings back what the console removed, however often the   *)
(* process restarts or dies while it seeds, as long as the console has     *)
(* never removed the last row.                                             *)
RemovedStaysRemoved == ~wiped => removed \cap DOMAIN table = {}
=============================================================================
