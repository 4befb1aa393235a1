---------------------------- MODULE SettingsDraft ----------------------------
(***************************************************************************)
(* The settings of one robot: a draft with a revision, edited from pages   *)
(* that each work on the revision they last read, the version last         *)
(* applied, the retained versions, and the copies running instances hold.  *)
(* Each request is one transaction; one that fails is no step.             *)
(***************************************************************************)
EXTENDS Integers, FiniteSets

CONSTANTS Pages, Instances,
          Keys, Values, Default,   \* settings are functions from Keys to Values
          Keep,                    \* versions retained
          MaxRevision

VARIABLES
    revision, draft, appliedRevision, applied,
    versions,    \* set of retained <<revision, body>>
    bindings,    \* the applied body whose handlers are bound
    seen,        \* [page -> the revision, draft and applied body it read]
    local,       \* [instance -> applied settings it runs with, or {} when it is down]
    wrote        \* history: [revision -> its last body]

row == <<revision, draft, appliedRevision, applied, versions, bindings, wrote>>
vars == <<row, seen, local>>

Defaults == [k \in Keys |-> Default]
Drafts == [Keys -> Values]
View == [rev |-> revision, draft |-> draft, applied |-> applied]

Init ==
    /\ revision = 0 /\ draft = Defaults /\ appliedRevision = 0 /\ applied = Defaults
    /\ versions = {} /\ bindings = Defaults
    /\ seen = [p \in Pages |-> View]
    /\ local = [i \in Instances |-> {}]
    /\ wrote = [r \in 0..MaxRevision |-> IF r = 0 THEN {Defaults} ELSE {}]

Read(p) == /\ seen' = [seen EXCEPT ![p] = View]
           /\ UNCHANGED <<row, local>>

\* The newest Keep versions, the one just written included.
Retained(r, body) ==
    LET all == {v \in versions : v[1] # r} \cup {<<r, body>>}
    IN {v \in all : Cardinality({w \in all : w[1] > v[1]}) < Keep}

\* [Mutated] The page's revision is compared with the applied one.
CurrentApplied(p) == seen[p].rev >= appliedRevision
Current(p) == seen[p].rev = revision

\* save, discard, defaults, restore: a new draft under the next revision.
NewDraft(p, body) ==
    /\ Current(p) /\ revision < MaxRevision
    /\ revision' = revision + 1 /\ draft' = body
    /\ versions' = Retained(revision + 1, body)
    /\ wrote' = [wrote EXCEPT ![revision + 1] = {body}]
    /\ seen' = [seen EXCEPT ![p] = [rev |-> revision + 1, draft |-> body, applied |-> applied]]
    /\ UNCHANGED <<appliedRevision, applied, bindings, local>>
Save(p, k, v) == NewDraft(p, [draft EXCEPT ![k] = v])
Discard(p) == NewDraft(p, applied)
ToDefaults(p) == NewDraft(p, Defaults)
Restore(p, v) == v \in versions /\ NewDraft(p, v[2])

\* apply: the draft as it is becomes what runs, with its handlers and in every instance.
Apply(p) ==
    /\ Current(p)
    /\ appliedRevision' = revision /\ applied' = draft
    /\ versions' = Retained(revision, draft)
    /\ wrote' = [wrote EXCEPT ![revision] = {draft}]
    /\ bindings' = draft
    /\ local' = [i \in Instances |-> IF local[i] = {} THEN {} ELSE {draft}]
    /\ seen' = [seen EXCEPT ![p] = [rev |-> revision, draft |-> draft, applied |-> draft]]
    /\ UNCHANGED <<revision, draft>>

Load(i) == /\ local' = [local EXCEPT ![i] = {applied}] /\ local[i] = {}
           /\ UNCHANGED <<row, seen>>
Unload(i) == /\ local[i] # {} /\ local' = [local EXCEPT ![i] = {}]
             /\ UNCHANGED <<row, seen>>

Next ==
    \/ \E p \in Pages : \/ Read(p) \/ Discard(p) \/ ToDefaults(p) \/ Apply(p)
                        \/ \E k \in Keys, v \in Values : Save(p, k, v)
                        \/ \E v \in versions : Restore(p, v)
    \/ \E i \in Instances : Load(i) \/ Unload(i)

Spec == Init /\ [][Next]_vars

(***************************************************************************)
(* Properties.                                                             *)
(***************************************************************************)
TypeOK ==
    /\ revision \in 0..MaxRevision /\ appliedRevision \in 0..revision
    /\ draft \in Drafts /\ applied \in Drafts /\ bindings \in Drafts
    /\ versions \subseteq (0..MaxRevision) \X Drafts

\* A page replaces or applies a draft only if that very draft is the one it showed: of two pages
\* that read the same draft, the change of the first is never lost in the change of the second.
OverwritesNothing ==
    \A p \in Pages : (draft' # draft \/ appliedRevision' # appliedRevision)
        /\ seen'[p] # seen[p] => seen[p].draft = draft
NothingOverwritten == [][OverwritesNothing]_vars

\* What is restored is what its revision was; the versions are the newest written; and what an
\* instance runs with is what is applied, with the handlers confirmed for it.
AppliedEverywhere ==
    /\ \A v \in versions : wrote[v[1]] = {v[2]}
    /\ Cardinality(versions) <= Keep
    /\ revision > 0 => <<revision, draft>> \in versions
    /\ wrote[appliedRevision] = {applied} /\ bindings = applied
    /\ \A i \in Instances : local[i] \subseteq {applied}
=============================================================================
