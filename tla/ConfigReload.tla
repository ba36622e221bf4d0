----------------------------- MODULE ConfigReload -----------------------------
(***************************************************************************)
(* Hot reload of config.yaml: the poller of config.Manager, which reloads  *)
(* the file when its modification time has changed, and the console's      *)
(* POST /api/config/reload, which reloads it at once.  A reload reads the  *)
(* file, makes the result the active configuration, and then applies it to *)
(* one component after the other (proxy.onConfigReload); nothing keeps two *)
(* reloads apart.                                                          *)
(*                                                                         *)
(* A configuration is the number of the edit that wrote it, whether it     *)
(* parses, and the value of the fields that only a restart can change.     *)
(* The reload of the masking rules is in RuleSync.                         *)
(***************************************************************************)
EXTENDS Naturals

CONSTANTS
    Poller,     \* the goroutine started by Manager.Start
    Consoles,   \* goroutines that serve POST /api/config/reload
    None,       \* no configuration read
    Fields,     \* values of the restart-required fields
    MaxEdits    \* bound on the edits of the file

ASSUME ReloadersAssumption == Poller \notin Consoles
ASSUME EditsAssumption == MaxEdits \in Nat

VARIABLES
    file,       \* what config.yaml holds
    mtime,      \* its modification time
    lastMod,    \* the one the poller remembers, 0 for none
    pc,         \* where a reload is
    loaded,     \* the configuration it has read
    flagged,    \* the reloads that found that a restart is needed
    current,    \* Manager.current
    limiter,    \* the configuration the rate limiter works with
    pruned,     \* the one whose retention policy was applied last
    alerts,     \* the one the alert sender works with
    restartFP,  \* the restart-required fields seen last
    announced,  \* history: the fields a restart_required alert was sent for
    hidden,     \* history: whether the poller cannot tell that file is new
    crowd,      \* history: reloads in progress that have met another one
    overlapped  \* history: whether the last to finish had

Reloaders == Consoles \cup {Poller}
fileVars == <<file, mtime>>
partVars == <<limiter, pruned, alerts>>
historyVars == <<hidden, crowd, overlapped>>
vars == <<fileVars, lastMod, pc, loaded, flagged, current, partVars, restartFP,
          announced, historyVars>>

Configs == [edit : 0..MaxEdits, good : BOOLEAN, fields : Fields]
Applied == {c \in Configs : c.good}
RestartFingerprint(c) == c.fields
Parts == {limiter, pruned, alerts}
Busy == {r \in Reloaders : pc[r] \notin {"idle", "starting"}}

(* New and main: the file is loaded, and the restart-required fields may   *)
(* then be overridden on the command line or by a port that was taken.     *)
Init ==
    /\ file \in {c \in Applied : c.edit = 0}
    /\ mtime = 1 /\ lastMod = 0
    /\ pc = [r \in Reloaders |-> IF r = Poller THEN "starting" ELSE "idle"]
    /\ loaded = [r \in Reloaders |-> None]
    /\ flagged = {}
    /\ restartFP \in Fields
    /\ current = [file EXCEPT !.fields = restartFP]
    /\ limiter = current /\ pruned = current /\ alerts = current
    /\ announced = {restartFP}
    /\ hidden = FALSE /\ crowd = {} /\ overlapped = FALSE

-----------------------------------------------------------------------------
(* The file is edited; a coarse clock may not tell two edits apart.  The   *)
(* fields of a file that does not parse are of no account.                 *)
Edit ==
    /\ file.edit < MaxEdits
    /\ file' \in {c \in Configs : c.edit = file.edit + 1 /\ (c.good \/ c.fields = file.fields)}
    /\ mtime' \in {mtime, mtime + 1}
    /\ hidden' = (mtime' = lastMod /\ pc[Poller] # "read")
    /\ UNCHANGED <<lastMod, pc, loaded, flagged, current, partVars, restartFP,
                   announced, crowd, overlapped>>

Goto(r, to) == pc' = [pc EXCEPT ![r] = to]

(* The poller looks at the modification time for the first time, a while   *)
(* after the file was loaded; when it cannot, it takes any later time for  *)
(* a change.                                                               *)
StartPolling ==
    /\ pc[Poller] = "starting"
    /\ Goto(Poller, "idle")
    /\ lastMod' \in {0, mtime}
    /\ hidden' = (lastMod' = mtime /\ file.edit # current.edit)
    /\ UNCHANGED <<fileVars, loaded, flagged, current, partVars, restartFP, announced,
                   crowd, overlapped>>

Begin(r) ==
    /\ pc[r] = "idle"
    /\ Goto(r, "read")
    /\ crowd' = IF Busy = {} THEN crowd ELSE crowd \cup Busy \cup {r}

(* A tick that finds another modification time remembers it and reloads.   *)
Poll ==
    /\ mtime # lastMod
    /\ Begin(Poller)
    /\ lastMod' = mtime
    /\ UNCHANGED <<fileVars, loaded, flagged, current, partVars, restartFP, announced,
                   hidden, overlapped>>

ReloadConfig(r) ==
    /\ r \in Consoles
    /\ Begin(r)
    /\ UNCHANGED <<fileVars, lastMod, loaded, flagged, current, partVars, restartFP,
                   announced, hidden, overlapped>>

-----------------------------------------------------------------------------
(* Manager.Reload.                                                         *)

\* Mutant: what was read is taken, parsed or not.
ReadAny(r) ==
    /\ pc[r] = "read"
    /\ loaded' = [loaded EXCEPT ![r] = file]
    /\ Goto(r, "loaded")
    /\ hidden' = FALSE
    /\ UNCHANGED <<fileVars, lastMod, flagged, current, partVars, restartFP, announced,
                   crowd, overlapped>>

Read(r) ==
    /\ pc[r] = "read" /\ file.good
    /\ loaded' = [loaded EXCEPT ![r] = file]
    /\ Goto(r, "loaded")
    /\ hidden' = FALSE
    /\ UNCHANGED <<fileVars, lastMod, flagged, current, partVars, restartFP, announced,
                   crowd, overlapped>>

(* The file does not parse, or cannot be read right now: the active        *)
(* configuration stays, and the poller does not try this edit again.       *)
ReadFails(r) ==
    /\ pc[r] = "read"
    /\ Goto(r, "idle")
    /\ hidden' = (hidden \/ (r = Poller /\ mtime = lastMod))
    /\ crowd' = crowd \ {r}
    /\ UNCHANGED <<fileVars, lastMod, loaded, flagged, current, partVars, restartFP,
                   announced, overlapped>>

Store(r) ==
    /\ pc[r] = "loaded"
    /\ current' = loaded[r]
    /\ Goto(r, "stored")
    /\ UNCHANGED <<fileVars, lastMod, loaded, flagged, partVars, restartFP, announced,
                   historyVars>>

-----------------------------------------------------------------------------
(* onConfigReload.                                                         *)

ReloadLimiter(r) ==
    /\ pc[r] = "stored"
    /\ limiter' = loaded[r]
    /\ Goto(r, "limited")
    /\ UNCHANGED <<fileVars, lastMod, loaded, flagged, current, pruned, alerts,
                   restartFP, announced, historyVars>>

(* pruneNow does not take the policy it is to apply: it asks for the       *)
(* active configuration, as it does every hour.                            *)
Prune(p) ==
    /\ pc[p] = "limited"
    /\ pruned' = current
    /\ Goto(p, "pruned")
    /\ UNCHANGED <<fileVars, lastMod, loaded, flagged, current, limiter, alerts,
                   restartFP, announced, historyVars>>

PruneHourly ==
    /\ pruned' = current
    /\ UNCHANGED <<fileVars, lastMod, pc, loaded, flagged, current, limiter, alerts,
                   restartFP, announced, historyVars>>

\* Mutant: the sender keeps its settings.
ForgetAlerts(r) ==
    /\ pc[r] = "pruned"
    /\ Goto(r, "alerting")
    /\ UNCHANGED <<fileVars, lastMod, loaded, flagged, current, partVars, restartFP,
                   announced, historyVars>>

ReloadAlerts(r) ==
    /\ pc[r] = "pruned"
    /\ alerts' = loaded[r]
    /\ Goto(r, "alerting")
    /\ UNCHANGED <<fileVars, lastMod, loaded, flagged, current, limiter, pruned,
                   restartFP, announced, historyVars>>

\* Mutant: the fields are remembered before they are compared.
CompareLate(r) ==
    /\ pc[r] = "alerting"
    /\ restartFP' = RestartFingerprint(loaded[r])
    /\ flagged' = IF restartFP' # RestartFingerprint(loaded[r])
                  THEN flagged \cup {r} ELSE flagged
    /\ Goto(r, "compared")
    /\ UNCHANGED <<fileVars, lastMod, loaded, current, partVars, announced, historyVars>>

(* p.restartFP is read, and then written, with no lock.                    *)
Compare(r) ==
    /\ pc[r] = "alerting"
    /\ flagged' = IF restartFP # RestartFingerprint(loaded[r])
                  THEN flagged \cup {r} ELSE flagged
    /\ Goto(r, "compared")
    /\ UNCHANGED <<fileVars, lastMod, loaded, current, partVars, restartFP, announced,
                   historyVars>>

\* Mutant: the poller looks at the modification time again when it is done.
RememberAfter(r) ==
    /\ pc[r] = "compared"
    /\ restartFP' = RestartFingerprint(loaded[r])
    /\ lastMod' = IF r = Poller THEN mtime ELSE lastMod
    /\ announced' = IF r \in flagged THEN announced \cup {restartFP'} ELSE announced
    /\ Goto(r, "idle")
    /\ overlapped' = (r \in crowd)
    /\ crowd' = crowd \ {r}
    /\ loaded' = [loaded EXCEPT ![r] = None] /\ flagged' = flagged \ {r}
    /\ UNCHANGED <<fileVars, current, partVars, hidden>>

Finish(r) ==      \* the alert: restart_required or config_reloaded
    /\ pc[r] = "compared"
    /\ restartFP' = RestartFingerprint(loaded[r])
    /\ announced' = IF r \in flagged THEN announced \cup {restartFP'} ELSE announced
    /\ Goto(r, "idle")
    /\ overlapped' = (r \in crowd)
    /\ crowd' = crowd \ {r}
    /\ loaded' = [loaded EXCEPT ![r] = None] /\ flagged' = flagged \ {r}
    /\ UNCHANGED <<fileVars, lastMod, current, partVars, hidden>>

-----------------------------------------------------------------------------
Step(r) ==
    \/ Read(r) \/ ReadFails(r) \/ Store(r)
    \/ ReloadLimiter(r) \/ Prune(r) \/ ReloadAlerts(r) \/ Compare(r) \/ Finish(r)

Next ==
    \/ Edit \/ StartPolling \/ Poll \/ PruneHourly
    \/ \E r \in Reloaders : ReloadConfig(r) \/ Step(r)

Spec == Init /\ [][Next]_vars

(* The poller starts, its ticker fires, and a reload in progress goes on.  *)
FairSpec ==
    /\ Spec
    /\ WF_vars(StartPolling) /\ WF_vars(Poll)
    /\ \A r \in Reloaders : WF_vars(Step(r))
-----------------------------------------------------------------------------
(* Every variable has its type; above all, whatever is edited, the active  *)
(* configuration and the ones the components work with have parsed         *)
(* (Manager.Reload returns before it stores, watcher.go:77-84).            *)
TypeOK ==
    /\ file \in Configs /\ mtime \in Nat /\ lastMod \in 0..mtime
    /\ pc \in [Reloaders -> {"starting", "idle", "read", "loaded", "stored", "limited",
                             "pruned", "alerting", "compared"}]
    /\ loaded \in [Reloaders -> Applied \cup {None}]
    /\ flagged \subseteq Reloaders
    /\ current \in Applied /\ Parts \subseteq Applied
    /\ restartFP \in Fields /\ announced \subseteq Fields
    /\ hidden \in BOOLEAN /\ overlapped \in BOOLEAN
    /\ crowd \subseteq Reloaders

(* Once reloads have come to rest, every component works with the active   *)
(* configuration (README.md:155), however edits, failed reloads and hourly *)
(* prunes fell between the steps of onConfigReload; unless the last reload *)
(* met another one: the two may then have stored and applied out of order. *)
AppliedTogether == Busy = {} /\ ~overlapped => Parts = {current}

(* Once reloads have come to rest, the restart-required fields of the      *)
(* active configuration are those the program runs with, or have been      *)
(* announced by a restart_required alert (README.md:155), although two     *)
(* reloads may compare with the same p.restartFP (proxy.go:526-532).       *)
RestartAnnounced == Busy = {} => RestartFingerprint(current) \in announced

(* An edit that parses becomes active with no help from the console, or is *)
(* replaced by another edit (README.md:155, watcher.go:113-131).  The      *)
(* exceptions are two: the poller had no chance to see it, for it was made *)
(* before the first look or under the same modification time, or could not *)
(* be read that once; or two reloads overlapped.                           *)
EditsArrive ==
    \A n \in 0..MaxEdits :
        file.edit = n /\ file.good ~>
            current.edit = n \/ file.edit # n \/ hidden \/ overlapped
=============================================================================
