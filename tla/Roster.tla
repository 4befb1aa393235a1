-------------------------------- MODULE Roster --------------------------------
(***************************************************************************)
(* What the adapter believes of the members of one group (profiles/): one  *)
(* membership row for each, written by member events, chat messages and    *)
(* queries; the complete roster that is served from the cache; and the     *)
(* revision and the continuity that tell whether it may be.  Around it the *)
(* group itself, the events on their way from it, and the receiver.        *)
(* QQ's clock and the adapter's agree to the second.                       *)
(***************************************************************************)
EXTENDS Naturals, Sequences, FiniteSets

CONSTANTS
    Members,
    Sessions,     \* the first session, or NoConnection for a webhook: events then
                  \* come in no order and name no connection
    StoreFails,   \* may an event fail to be stored
    MaxTime, MaxEvents, MaxSessions, MaxReads, MaxFaults

VARIABLES
    time,           \* seconds
    truth, since,   \* who is in the group; when each last came or went
    pipe, sent,     \* events QQ keeps or the inbox holds; how many there were
    session, link,  \* the receiver: its session, and "online", "broken", "fresh"
    scope,          \* scopes: the revision and continuity, and whether there is a row
    row,            \* membership
    roster,         \* rosters
    gap, error,     \* in memory: _robot_gaps, _scope_errors
    rd, qd, reads,  \* the refresh of the roster and of one member; how many
    missed,         \* history: members an event of whom was lost
    faults

world == <<time, truth, since, sent>>
vars  == <<time, truth, since, pipe, sent, session, link, scope, row, roster, gap, error,
           rd, qd, reads, missed, faults>>

NoConnection == 0
NoSeq     == 0
NoRow     == [state |-> "none", at |-> 0, connection |-> NoConnection, sequence |-> NoSeq, rev |-> 0]
NoRoster  == [there |-> FALSE, rev |-> 0, complete |-> FALSE, continuous |-> FALSE, count |-> 0]
Webhook   == session = NoConnection
Idle      == [at |-> "idle", rev |-> 0, started |-> 0, connection |-> NoConnection,
              todo |-> {}, seen |-> {}]

Init ==
    /\ time = 1 /\ truth \in SUBSET Members /\ since = [m \in Members |-> 0] /\ pipe = << >> /\ sent = 0
    /\ session \in Sessions
    /\ link = "online"
    /\ scope = [there |-> FALSE, rev |-> 0, continuity |-> FALSE]
    /\ row = [m \in Members |-> NoRow] /\ roster = NoRoster
    /\ gap = FALSE /\ error = FALSE /\ rd = Idle /\ qd = Idle /\ reads = 0
    /\ missed = {} /\ faults = 0

Fail == faults < MaxFaults /\ faults' = faults + 1

-----------------------------------------------------------------------------
(* The group and the receiver                                              *)

Tick ==
    /\ time < MaxTime /\ time' = time + 1
    /\ UNCHANGED <<truth, since, pipe, sent, session, link, scope, row, roster, gap, error, rd,
                   qd, reads, missed, faults>>

Sends(m, kind, state) ==
    /\ sent < MaxEvents /\ sent' = sent + 1
    /\ LET e == [who |-> m, kind |-> kind, state |-> state, at |-> time,
                 connection |-> IF kind = "chat" THEN NoConnection ELSE session,
                 sequence |-> IF kind = "chat" THEN NoSeq ELSE sent + 1]
       IN  IF link = "fresh" THEN missed' = missed \cup {m} /\ UNCHANGED pipe
           ELSE pipe' = Append(pipe, e) /\ UNCHANGED missed

\* Nobody comes or goes twice within a second.
Changes(m) ==
    /\ time > since[m] /\ since' = [since EXCEPT ![m] = time]
    /\ truth' = IF m \in truth THEN truth \ {m} ELSE truth \cup {m}
    /\ Sends(m, "member", IF m \in truth THEN "left" ELSE "present")
    /\ UNCHANGED <<time, session, link, scope, row, roster, gap, error, rd, qd, reads, faults>>

Speaks(m) ==
    /\ m \in truth /\ Sends(m, "chat", "present")
    /\ UNCHANGED <<time, truth, since, session, link, scope, row, roster, gap, error, rd, qd, reads, faults>>

\* mark_gap: only a scope that has a row has a revision to raise.
Gapped(s) == IF s.there THEN [s EXCEPT !.rev = @ + 1, !.continuity = FALSE] ELSE s

Break ==
    /\ ~Webhook /\ link = "online" /\ session < MaxSessions /\ link' = "broken"
    /\ UNCHANGED <<world, pipe, session, scope, row, roster, gap, error, rd, qd, reads, missed, faults>>

Resume ==
    /\ link = "broken" /\ link' = "online"
    /\ UNCHANGED <<world, pipe, session, scope, row, roster, gap, error, rd, qd, reads, missed, faults>>

About(i, m) == pipe[i].kind # "ready" /\ pipe[i].who = m

\* An Identify is needed: what QQ still kept of the old session is lost.
Fresh ==
    /\ link = "broken" /\ link' = "fresh"
    /\ \E n \in 0..Len(pipe) :
          /\ pipe' = SubSeq(pipe, 1, n)
          /\ missed' = missed \cup {m \in Members : \E i \in n+1..Len(pipe) : About(i, m)}
    /\ \/ /\ scope' = Gapped(scope) /\ roster' = [roster EXCEPT !.continuous = FALSE]
          /\ gap' = FALSE /\ UNCHANGED faults
       \/ /\ Fail /\ gap' = TRUE /\ UNCHANGED <<scope, roster>>   \* it could not be stored
    /\ UNCHANGED <<world, session, row, error, rd, qd, reads>>

\* READY; the core consumer marks a gap again when it comes to it.
Ready ==
    /\ link = "fresh" /\ link' = "online" /\ session' = session + 1
    /\ pipe' = Append(pipe, [kind |-> "ready"])
    /\ UNCHANGED <<world, scope, row, roster, gap, error, rd, qd, reads, missed, faults>>

\* continuity_check: the sessions of a gateway that is online.
Continuity == IF link = "online" THEN session ELSE NoConnection

Restart ==
    /\ Fail /\ link' = IF Webhook THEN "online" ELSE "broken"
    /\ scope' = [scope EXCEPT !.continuity = FALSE] /\ roster' = [roster EXCEPT !.continuous = FALSE]
    /\ gap' = FALSE /\ error' = FALSE /\ rd' = Idle /\ qd' = Idle
    /\ UNCHANGED <<world, pipe, session, row, reads, missed>>

-----------------------------------------------------------------------------
(* member_event                                                            *)

Bumped == [scope EXCEPT !.there = TRUE, !.rev = @ + 1]

Newer(old, e) == old.state = "none" \/ e.at > old.at

Older(old, e) == e.at < old.at \/ (e.at = old.at /\ old.state = "unknown")

\* Two states in one second: the sequence of one connection decides.
Comparable(old, e) ==
    /\ e.connection # NoConnection /\ e.connection = old.connection
    /\ e.sequence # old.sequence

Believe(e) ==
    LET old == row[e.who]
        fact == [state |-> e.state, at |-> e.at, connection |-> e.connection,
                 sequence |-> e.sequence, rev |-> scope.rev + 1]
        Becomes(new) == /\ row' = [row EXCEPT ![e.who] = new] /\ scope' = Bumped
                        /\ roster' = [roster EXCEPT !.complete = FALSE]
        Ignored == UNCHANGED <<row, scope, roster>>
    IN  IF Newer(old, e) THEN Becomes(fact)
        ELSE IF Older(old, e) \/ old.state = e.state THEN Ignored
        ELSE IF Comparable(old, e)
             THEN IF e.sequence < old.sequence THEN Ignored ELSE Becomes(fact)
        ELSE Becomes([old EXCEPT !.state = "unknown", !.rev = scope.rev + 1])

Drop(i) == pipe' = SubSeq(pipe, 1, i - 1) \o SubSeq(pipe, i + 1, Len(pipe))
Following   == IF Webhook THEN DOMAIN pipe ELSE 1..(IF pipe = << >> THEN 0 ELSE 1)

Observe ==
    /\ \E i \in Following :
          /\ Drop(i)
          /\ IF pipe[i].kind = "ready"
             THEN /\ scope' = Gapped(scope) /\ roster' = [roster EXCEPT !.continuous = FALSE]
                  /\ gap' = FALSE /\ UNCHANGED row
             ELSE Believe(pipe[i]) /\ UNCHANGED gap
    /\ UNCHANGED <<world, session, link, error, rd, qd, reads, missed, faults>>

\* The event cannot be stored, and is over: a gap is marked, if that can be.
ObserveFails ==
    /\ StoreFails /\ Fail
    /\ \E i \in Following :
          /\ Drop(i) /\ pipe[i].kind # "ready"
          /\ missed' = missed \cup {pipe[i].who}
    /\ error' = (error \/ roster.there)
    /\ \/ scope' = Gapped(scope) /\ roster' = [roster EXCEPT !.continuous = FALSE]
       \/ UNCHANGED <<scope, roster>>
    /\ UNCHANGED <<world, session, link, row, gap, rd, qd, reads>>

-----------------------------------------------------------------------------
(* Queries                                                                 *)

Starts(todo) == [at |-> "reading", rev |-> scope.rev, started |-> time,
                 connection |-> Continuity, todo |-> todo, seen |-> {}]

\* Refreshes of one roster, and of one member, are shared by their callers.
RosterStart ==
    /\ rd = Idle /\ reads < MaxReads /\ reads' = reads + 1 /\ rd' = Starts(Members)
    /\ UNCHANGED <<world, pipe, session, link, scope, row, roster, gap, error, qd, missed, faults>>

MemberStart(m) ==
    /\ qd = Idle /\ reads < MaxReads /\ reads' = reads + 1 /\ qd' = Starts({m})
    /\ UNCHANGED <<world, pipe, session, link, scope, row, roster, gap, error, rd, missed, faults>>

Shown(r, m) == [r EXCEPT !.todo = @ \ {m}, !.seen = IF m \in truth THEN @ \cup {m} ELSE @]

\* QQ shows one page of the roster, or the member.
RosterPage(m) ==
    /\ m \in rd.todo /\ rd' = Shown(rd, m)
    /\ UNCHANGED <<world, pipe, session, link, scope, row, roster, gap, error, qd, reads, missed, faults>>

MemberShown ==
    /\ \E m \in qd.todo : qd' = Shown(qd, m)
    /\ UNCHANGED <<world, pipe, session, link, scope, row, roster, gap, error, rd, reads, missed, faults>>

Present(started, rev) ==
    [state |-> "present", at |-> started, connection |-> NoConnection, sequence |-> NoSeq, rev |-> rev]

\* query_member, if nothing was learnt of the group meanwhile.
MemberEnd ==
    /\ qd # Idle /\ qd.todo = {} /\ qd' = Idle
    /\ IF qd.seen # {} /\ scope.rev = qd.rev
       THEN /\ scope' = Bumped /\ roster' = [roster EXCEPT !.complete = FALSE]
            /\ row' = [m \in Members |-> IF m \in qd.seen THEN Present(qd.started, scope.rev + 1)
                                         ELSE row[m]]
       ELSE UNCHANGED <<scope, row, roster>>
    /\ UNCHANGED <<world, pipe, session, link, gap, error, rd, reads, missed, faults>>

\* [Mutated] it is enough that there is a connection at the end.
VerifiedAtEnd(r) == Continuity # NoConnection

Verified(r) == r.connection # NoConnection /\ Continuity = r.connection

Undisturbed(r, s) == s.rev = r.rev

\* The end of _refresh_roster: mark_gap, set_continuity, record_roster.
RosterEnd ==
    /\ rd # Idle /\ rd.todo = {} /\ rd' = Idle
    /\ LET moved == rd.connection # NoConnection /\ Continuity # rd.connection
           s == IF moved THEN Gapped(scope) ELSE scope
           rev == s.rev + 1
       IN  IF Undisturbed(rd, s)
           THEN /\ scope' = [there |-> TRUE, rev |-> rev, continuity |-> Verified(rd)]
                /\ row' = [m \in Members |-> IF m \in rd.seen THEN Present(rd.started, rev) ELSE row[m]]
                /\ roster' = [there |-> TRUE, rev |-> rev, complete |-> TRUE,
                              continuous |-> Verified(rd), count |-> Cardinality(rd.seen)]
                /\ error' = FALSE /\ gap' = FALSE
           ELSE /\ scope' = [s EXCEPT !.there = TRUE] /\ UNCHANGED <<row, error, gap>>
                /\ roster' = IF moved THEN [roster EXCEPT !.continuous = FALSE] ELSE roster
    /\ UNCHANGED <<world, pipe, session, link, qd, reads, missed, faults>>

\* A page fails, the read times out, no caller is left.
RosterFails ==
    /\ rd # Idle /\ Fail /\ rd' = Idle
    /\ UNCHANGED <<world, pipe, session, link, scope, row, roster, gap, error, qd, reads, missed>>

Next ==
    \/ Tick \/ Break \/ Resume \/ Fresh \/ Ready \/ Restart \/ Observe \/ ObserveFails
    \/ RosterStart \/ MemberShown \/ MemberEnd \/ RosterEnd \/ RosterFails
    \/ \E m \in Members : Changes(m) \/ Speaks(m) \/ MemberStart(m) \/ RosterPage(m)

Spec == Init /\ [][Next]_vars

-----------------------------------------------------------------------------
\* cached_roster and get_roster_status.
Listed == {m \in Members : row[m].state = "present" /\ row[m].rev = roster.rev}
Cached ==
    /\ roster.there /\ roster.complete /\ roster.continuous
    /\ roster.rev = scope.rev /\ ~error /\ ~gap /\ Continuity # NoConnection
    /\ Cardinality(Listed) = roster.count

Coming(m) == \E i \in DOMAIN pipe : pipe[i].kind = "member" /\ pipe[i].who = m

(* The docstring of cached_roster: "Return only a fresh, receiver-          *)
(* continuous complete roster snapshot."  A roster served from the cache    *)
(* shows who is in the group, but for a change whose event is on its way:   *)
(* no change was missed while it was read or since.                         *)
CachedRosterIsTrue ==
    Cached => \A m \in Members : Coming(m) \/ (m \in Listed <=> m \in truth)

(* The row of a member no event of whom was lost tells the truth once all   *)
(* events have been handled, or says that it does not know: an older fact   *)
(* never replaces a newer one, in whatever order events and the answers of  *)
(* queries come in.                                                         *)
MembershipIsTrue ==
    \A m \in Members \ missed :
       ~Coming(m) /\ row[m].state # "none" =>
          row[m].state \in {"unknown", IF m \in truth THEN "present" ELSE "left"}
=============================================================================
