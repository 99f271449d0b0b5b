----------------------------- MODULE RuleTable ------------------------------
(***************************************************************************)
(* The committed taxonomy as other transactions see it: the tags, and the  *)
(* rules with their conditions (infrastructure/db/models.py), each changed *)
(* by one commit at a time.  This is what the rule endpoints promise a     *)
(* reader; RuleStore models how they carry it out.                         *)
(*                                                                         *)
(* A rule keeps its tag for life, and its id, a fresh uuid, is never used  *)
(* again: TagOf is a constant, and a deleted rule stays deleted.           *)
(***************************************************************************)
EXTENDS FiniteSets

CONSTANTS
    TagIds, RuleIds,
    TagOf,       \* the tag_id of each rule
    Conditions,  \* the contents a condition can have
    Unused,      \* a rule id nobody has drawn yet
    Deleted      \* a rule that has been deleted

ASSUME TagOfAssumption == TagOf \in [RuleIds -> TagIds]

Row == [is_enabled : BOOLEAN, conditions : (SUBSET Conditions) \ {{}}]

ASSUME MarkersAssumption == Unused \notin Row /\ Deleted \notin Row /\ Unused # Deleted

VARIABLES
    tags,        \* the tags there are
    active_tags, \* those created with is_active, which nothing changes
    rules        \* rules[r]: Unused, Deleted or the row of r with its conditions

tableVars == <<tags, active_tags, rules>>

Live(r) == rules[r] \notin {Unused, Deleted}

TableInit ==
    /\ tags \in SUBSET TagIds
    /\ active_tags \in SUBSET tags
    /\ rules \in [RuleIds -> {Unused} \cup Row]
    /\ \A r \in RuleIds : Live(r) => TagOf[r] \in tags

CreateTag(t) ==
    /\ t \notin tags
    /\ tags' = tags \cup {t}
    /\ active_tags' \in {active_tags, active_tags \cup {t}}
    /\ UNCHANGED rules

(* The foreign key of tag_rules.tag_id wants the tag to exist, active or   *)
(* not.                                                                    *)
CreateRule(r) ==
    /\ rules[r] = Unused
    /\ TagOf[r] \in tags
    /\ \E row \in Row : rules' = [rules EXCEPT ![r] = row]
    /\ UNCHANGED <<tags, active_tags>>

(* A mutant: an update that brings no condition leaves the rule without. *)
MutUpdateRule(r) ==
    /\ Live(r)
    /\ \E row \in Row : rules' = [rules EXCEPT ![r] = [row EXCEPT !.conditions = {}]]
    /\ UNCHANGED <<tags, active_tags>>

UpdateRule(r) ==
    /\ Live(r)
    /\ \E row \in Row : rules' = [rules EXCEPT ![r] = row]
    /\ UNCHANGED <<tags, active_tags>>

DeleteRule(r) ==
    /\ Live(r)
    /\ rules' = [rules EXCEPT ![r] = Deleted]
    /\ UNCHANGED <<tags, active_tags>>

TableNext ==
    \/ \E t \in TagIds : CreateTag(t)
    \/ \E r \in RuleIds : CreateRule(r) \/ UpdateRule(r) \/ DeleteRule(r)

TableSpec == TableInit /\ [][TableNext]_tableVars

(* A rule has at least one condition, and its tag exists. *)
TableOK ==
    /\ tags \in SUBSET TagIds
    /\ active_tags \in SUBSET tags
    /\ rules \in [RuleIds -> {Unused, Deleted} \cup Row]
    /\ \A r \in RuleIds : Live(r) => TagOf[r] \in tags
=============================================================================
