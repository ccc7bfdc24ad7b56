-------------------------------- MODULE Pulse --------------------------------
(***************************************************************************)
(* The insights of the Pulse daemon (internal/pulse/pulse.go): a check     *)
(* goes through the rules, announces what no rule has found before and     *)
(* saves the history after each rule; an insight may be dismissed, and the *)
(* history cleared.  All of it is under pm.mu.  What the rules find is any *)
(* subset of their insights; titles and times are left out.                *)
(***************************************************************************)
EXTENDS Naturals

CONSTANTS Rules, Insight, RuleOf, MaxFaults     \* 1 .. Rules in the order of DefaultRules

PulseAssumption == Rules \in Nat \ {0} /\ MaxFaults \in Nat

VARIABLES
    insights,   \* per insight: "new" (not in the list), "active", "dismissed"
    cooling,    \* the rules within their cooldown
    disk,       \* history.json
    step,       \* what holds pm.mu: its place, its rule, and the file history.json.tmp
    faults,
    announced,  \* history: how often an insight was broadcast since the history was cleared
    gone,       \* history: the insights whose dismissal has returned since then
    unsaved,    \* history: the insights changed since the last save that succeeded
    failed,     \* history: the last save failed
    excused     \* history: insights lost by a failed save, or a crash before the save

vars == <<insights, cooling, disk, step, faults, announced, gone, unsaved, failed, excused>>

Nothing == [x \in Insight |-> "new"]
At(pc, rule) == [pc |-> pc, rule |-> rule, tmp |-> Nothing]
Idle == At("idle", 0)

Init ==
    /\ insights = Nothing /\ cooling = {} /\ disk = Nothing /\ step = Idle /\ faults = 0
    /\ announced = [x \in Insight |-> 0] /\ gone = {} /\ unsaved = {} /\ failed = FALSE
    /\ excused = {}

Fault == faults < MaxFaults /\ faults' = faults + 1

-----------------------------------------------------------------------------
(* CheckRules *)

Start ==
    /\ step = Idle
    /\ step' = At("rule", 1)
    /\ UNCHANGED <<insights, cooling, disk, faults, announced, gone, unsaved, failed, excused>>

NextRule == IF step.rule = Rules THEN Idle ELSE At("rule", step.rule + 1)

\* Fault: a dismissed insight counts as new.
FreshIfDismissed(found) == {x \in found : insights[x] # "active"}

Fresh(found) == {x \in found : insights[x] = "new"}

\* A rule within its cooldown is passed over; what it finds and is new is announced.
CheckRule ==
    /\ step.pc = "rule"
    /\ \E found \in SUBSET {x \in Insight : RuleOf[x] = step.rule} :
         LET fresh == Fresh(found) IN
         /\ step.rule \in cooling => found = {}
         /\ insights' = [x \in Insight |-> IF x \in fresh THEN "active" ELSE insights[x]]
         /\ announced' = [x \in Insight |-> IF x \in fresh /\ announced[x] < 2
                                              THEN announced[x] + 1 ELSE announced[x]]
         /\ cooling' = IF fresh = {} THEN cooling ELSE cooling \cup {step.rule}
         /\ unsaved' = unsaved \cup fresh
         /\ step' = IF fresh = {} THEN NextRule ELSE At("save", step.rule)
    /\ UNCHANGED <<disk, faults, gone, failed, excused>>

CooldownEnds(r) ==
    /\ r \in cooling
    /\ cooling' = cooling \ {r}
    /\ UNCHANGED <<insights, disk, step, faults, announced, gone, unsaved, failed, excused>>

-----------------------------------------------------------------------------
\* DismissInsight and ClearHistory are no rule: their save is the last step.
DismissInsight(x) ==
    /\ step = Idle /\ insights[x] # "new"
    /\ insights' = [insights EXCEPT ![x] = "dismissed"]
    /\ gone' = gone \cup {x}
    /\ unsaved' = unsaved \cup {x}
    /\ step' = At("save", Rules)
    /\ UNCHANGED <<cooling, disk, faults, announced, failed, excused>>

ClearHistory ==
    /\ step = Idle
    /\ insights' = Nothing
    /\ gone' = {} /\ announced' = [x \in Insight |-> 0] /\ unsaved' = Insight
    /\ step' = At("save", Rules)
    /\ UNCHANGED <<cooling, disk, faults, failed, excused>>

\* saveHistoryLocked: the temporary file, then the rename; an error is only logged.
SaveFails ==
    /\ step.pc \in {"save", "rename"} /\ Fault
    /\ failed' = TRUE /\ step' = NextRule
    /\ UNCHANGED <<insights, cooling, disk, announced, gone, unsaved, excused>>

\* Fault: history.json itself is written, and torn until it is.
SaveInPlace ==
    /\ step.pc = "save"
    /\ step' = [step EXCEPT !.pc = "rename", !.tmp = insights]
    /\ disk' = Nothing
    /\ UNCHANGED <<insights, cooling, faults, announced, gone, unsaved, failed, excused>>

Save ==
    /\ step.pc = "save"
    /\ step' = [step EXCEPT !.pc = "rename", !.tmp = insights]
    /\ UNCHANGED <<insights, cooling, disk, faults, announced, gone, unsaved, failed, excused>>

Rename ==
    /\ step.pc = "rename"
    /\ disk' = step.tmp /\ step' = NextRule
    /\ unsaved' = {} /\ failed' = FALSE
    /\ UNCHANGED <<insights, cooling, faults, announced, gone, excused>>

\* The process ends and loadHistory reads the file; the cooldowns are forgotten.
Restart ==
    /\ Fault
    /\ insights' = disk /\ cooling' = {} /\ step' = Idle
    /\ excused' = excused \cup (IF failed \/ step # Idle THEN unsaved ELSE {})
    /\ unsaved' = {} /\ failed' = FALSE
    /\ UNCHANGED <<disk, announced, gone>>

Next == \/ Start \/ CheckRule \/ ClearHistory \/ SaveFails \/ Save \/ Rename \/ Restart
        \/ \E r \in 1 .. Rules : CooldownEnds(r)
        \/ \E x \in Insight : DismissInsight(x)
Spec == Init /\ [][Next]_vars

-----------------------------------------------------------------------------
States == [Insight -> {"new", "active", "dismissed"}]
TypeOK ==
    /\ insights \in States /\ disk \in States /\ cooling \subseteq 1 .. Rules
    /\ step \in [pc : {"idle", "rule", "save", "rename"}, rule : 0 .. Rules, tmp : States]
    /\ announced \in [Insight -> 0 .. 2] /\ faults \in 0 .. MaxFaults
    /\ gone \subseteq Insight /\ unsaved \subseteq Insight /\ excused \subseteq Insight
    /\ failed \in BOOLEAN

\* An insight is announced once, and one that was dismissed is not shown again, in this
\* process and in the next ones, until the history is cleared; an insight whose save failed
\* or came too late is excepted, and no other (pulse.go:164 "If it is already dismissed, do
\* not re-notify/re-add.").
InsightsAreTold ==
    \A x \in Insight \ excused :
        /\ announced[x] <= 1
        /\ x \in gone => insights[x] = "dismissed"
=============================================================================
