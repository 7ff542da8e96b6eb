------------------------------ MODULE SelfState ------------------------------
(***************************************************************************)
(* The self-state policy (src/self_state.cpp): a versioned profile and     *)
(* commitments of one subject, changed only by proposals that an exact     *)
(* host grant allows; replay of the policy over the history, the           *)
(* per-head cache of SelfRuntime, and the guard inside Store::commit.      *)
(*                                                                         *)
(* The store is reduced to its chain of commits; a commit's position is    *)
(* its id.  An attempt commits only on the head it was admitted at, and    *)
(* the wait, the limits and the binding to an occasion are module          *)
(* Runtime's.  Proposals show only what they do to self.* keys.            *)
(***************************************************************************)
EXTENDS Naturals, Sequences, FiniteSets

CONSTANTS
    Runtimes,       \* SelfRuntime objects, each with its own cache
    Ids,            \* commitment keys
    Texts,          \* terms of commitments
    Profiles,       \* application data of profiles
    MaxOpen,        \* open commitments a view may hold
    MaxPermissions, \* create and settle permissions of a grant
    Foreign,        \* protected proposals that a writer without install_self_guard
                    \* commits; {}: every writer has it
    CommitBound     \* bound on the history, for model checking

ASSUME SelfAssumption ==
    /\ MaxOpen \in Nat
    /\ MaxPermissions \in Nat
    /\ CommitBound \in Nat \ {0}

VARIABLES
    history,  \* commits: a proposal and the self packet of its admission, if any
    cache,    \* SelfRuntime::cache_: {} or {[head, state]}
    self      \* the step under way

selfVars == <<history, cache, self>>

Nil == "none"
NoTask == [text |-> Nil, status |-> Nil, version |-> 0]
NoSettlement == [version |-> 0, status |-> Nil]

\* A proposal: a profile, notes on commitments, another use of a reserved key.
NoProfile == [data |-> Nil, revision |-> 0]
Null == [profile |-> NoProfile, notes |-> [k \in Ids |-> NoTask], misuse |-> FALSE]

\* A grant without permissions, which a null grant stands for.
ReadOnly(h) ==
    [head |-> h, create |-> [k \in Ids |-> Nil], settle |-> [k \in Ids |-> NoSettlement],
     profile |-> Nil]

Open(tasks) == {k \in Ids : tasks[k].status = "open"}

\* What a prompt shows: the profile and the open commitments.
view_of(state, h) ==
    [head |-> h, profile |-> state.profile,
     open |-> [k \in Ids |-> IF k \in Open(state.tasks) THEN state.tasks[k] ELSE NoTask]]

Viewable(state) == Cardinality(Open(state.tasks)) <= MaxOpen

Genesis == [profile |-> [data |-> CHOOSE d \in Profiles : TRUE, revision |-> 0, version |-> 1],
            tasks |-> [k \in Ids |-> NoTask]]

-----------------------------------------------------------------------------
(* Grants and what they allow.                                             *)

Permissions(g) ==
    Cardinality({k \in Ids : g.create[k] # Nil}) + Cardinality({k \in Ids : g.settle[k] # NoSettlement})

\* Bound to the head; settlements name an open commitment and its version.
grant_valid(g, view) ==
    /\ g.head = view.head
    /\ Permissions(g) <= MaxPermissions
    /\ \A k \in Ids :
          /\ g.create[k] # Nil => g.settle[k] = NoSettlement
          /\ g.settle[k] # NoSettlement =>
                view.open[k] # NoTask /\ g.settle[k].version = view.open[k].version

\* Settled ids are not granted again.
grant_unused_ids(state, g) == \A k \in Ids : g.create[k] # Nil => state.tasks[k] = NoTask

protected_write(p) == p # Null

\* The exact granted data, and the next revision.
ProfileAllowed(state, p, g) ==
    p.profile # NoProfile =>
        /\ g.profile # Nil
        /\ p.profile = [data |-> g.profile, revision |-> state.profile.revision + 1]

\* Creation with the granted terms; settlement of an open commitment with its
\* own terms, at the granted version.
NotesAllowed(state, p, g) ==
    \A k \in Ids : LET note == p.notes[k]  old == state.tasks[k]
                   IN  note # NoTask =>
        IF old = NoTask
        THEN note.status = "open" /\ g.create[k] = note.text
        ELSE /\ old.status = "open" /\ old.text = note.text
             /\ g.settle[k] = [version |-> old.version, status |-> note.status]

Allowed(state, p, g) ==
    ~p.misuse /\ ProfileAllowed(state, p, g) /\ NotesAllowed(state, p, g)

\* apply: the state after an allowed proposal, committed as `version'.
apply(state, p, version) ==
    [profile |-> IF p.profile = NoProfile THEN state.profile
                 ELSE [data |-> p.profile.data, revision |-> p.profile.revision,
                       version |-> version],
     tasks |-> [k \in Ids |-> IF p.notes[k] = NoTask THEN state.tasks[k]
                              ELSE [p.notes[k] EXCEPT !.version = version]]]

-----------------------------------------------------------------------------
(* replay: the policy over the whole history.  {} stands for its error.    *)

Replayed(state, c, version) ==
    LET after == apply(state, c.proposal, version)
        accepted == \/ /\ c.packet = {}
                       /\ ~protected_write(c.proposal)
                    \/ \E packet \in c.packet :
                          /\ packet.view = view_of(state, version - 1)
                          /\ grant_valid(packet.grant, packet.view)
                          /\ grant_unused_ids(state, packet.grant)
                          /\ Allowed(state, c.proposal, packet.grant)
    IN  IF accepted /\ Viewable(after) THEN {after} ELSE {}

replay(n) ==
    LET states[i \in 1 .. n] ==
            IF i = 1 THEN {Genesis}
            ELSE UNION {Replayed(state, history[i], i) : state \in states[i - 1]}
    IN  states[n]

head == Len(history)

-----------------------------------------------------------------------------
(* SelfRuntime::step.                                                      *)

SelfIdle == [at |-> "idle", head |-> 0, state |-> Genesis, grant |-> ReadOnly(0), proposal |-> Null]

SelfInit ==
    /\ history = <<[proposal |-> Null, packet |-> {}]>>
    /\ cache = [r \in Runtimes |-> {}]
    /\ self = [r \in Runtimes |-> SelfIdle]

In(r, pc) == self[r].at = pc

\* The cached state if it belongs to the head, else the replayed one; a history
\* that violates the policy is an error.
Known(r) ==
    IF \E c \in cache[r] : c.head = head THEN {c.state : c \in cache[r]} ELSE replay(head)

Load(r) ==
    /\ In(r, "idle")
    /\ \E state \in Known(r) :
          /\ self' = [self EXCEPT ![r] = [SelfIdle EXCEPT !.at = "loaded", !.head = head,
                                                          !.state = state]]
          /\ cache' = [cache EXCEPT ![r] = {[head |-> head, state |-> state]}]
    /\ UNCHANGED history

Grants(h) ==
    [head : {h}, create : [Ids -> Texts \cup {Nil}],
     settle : [Ids -> {NoSettlement} \cup [version : 1 .. CommitBound, status : {"closed"}]],
     profile : Profiles \cup {Nil}]

\* A stale grant, or a head that moved, fails without an attempt.
AdmitSelf(r, g) ==
    /\ In(r, "loaded")
    /\ grant_valid(g, view_of(self[r].state, self[r].head))
    /\ grant_unused_ids(self[r].state, g)
    /\ head = self[r].head
    /\ self' = [self EXCEPT ![r].at = "admitted", ![r].grant = g]
    /\ UNCHANGED <<history, cache>>

\* Waiting, a stale grant or context, a failed answer, an abstention.
EndStep(r) ==
    /\ self[r].at \in {"loaded", "admitted", "rejected"}
    /\ self' = [self EXCEPT ![r] = SelfIdle]
    /\ UNCHANGED <<history, cache>>

\* Mutant: the guard does not build the next view.
AcceptedUnseen(r, p) == Allowed(self[r].state, p, self[r].grant)

\* The proposal guard: the proposal applied to a copy of the state.
Accepted(r, p) ==
    /\ Allowed(self[r].state, p, self[r].grant)
    /\ Viewable(apply(self[r].state, p, 0))

Answer(r, p) ==
    /\ In(r, "admitted")
    /\ self' = [self EXCEPT ![r].at = IF Accepted(r, p) THEN "commit" ELSE "rejected",
                            ![r].proposal = IF Accepted(r, p) THEN p ELSE Null]
    /\ UNCHANGED <<history, cache>>

Packet(r) == [view |-> view_of(self[r].state, self[r].head), grant |-> self[r].grant]

\* Mutant: the state of the preview, with its placeholder version, is cached.
RememberPreview(r, p) == {[head |-> head + 1, state |-> apply(self[r].state, p, 0)]}

\* The state after p, at the new head.
Remember(r, p) == {[head |-> head + 1, state |-> apply(self[r].state, p, head + 1)]}

\* The proposal is committed, or, at the failure limit, the kernel's null.
Publish(r, p) ==
    /\ head = self[r].head
    /\ head < CommitBound
    /\ history' = Append(history, [proposal |-> p, packet |-> {Packet(r)}])
    /\ cache' = [cache EXCEPT ![r] = Remember(r, p)]
    /\ self' = [self EXCEPT ![r] = SelfIdle]

CommitSelf(r) == In(r, "commit") /\ Publish(r, self[r].proposal)

DisposeSelf(r) == In(r, "rejected") /\ Publish(r, Null)

\* Another writer was first: the cached entry is erased.
LoseRace(r) ==
    /\ In(r, "commit")
    /\ head # self[r].head
    /\ cache' = [cache EXCEPT ![r] = {}]
    /\ self' = [self EXCEPT ![r] = SelfIdle]
    /\ UNCHANGED history

\* A new process: nothing is cached.
Restart(r) ==
    /\ cache' = [cache EXCEPT ![r] = {}]
    /\ self' = [self EXCEPT ![r] = SelfIdle]
    /\ UNCHANGED history

-----------------------------------------------------------------------------
(* Other writers, and the guard they may have in their store.              *)

\* Mutant: the commitments of the packet are taken at its head's version.
RebuiltAtHead(packet) ==
    [profile |-> packet.view.profile,
     tasks |-> [k \in Ids |-> IF packet.view.open[k] = NoTask THEN NoTask
                              ELSE [packet.view.open[k] EXCEPT !.version = packet.view.head]]]

\* The state install_self_guard rebuilds from the admitted packet.
Rebuilt(packet) == [profile |-> packet.view.profile, tasks |-> packet.view.open]

\* install_self_guard, inside Store::commit.
TransitionGuard(packets, p) ==
    \/ packets = {} /\ ~protected_write(p)
    \/ \E packet \in packets :
          /\ grant_valid(packet.grant, packet.view)
          /\ Allowed(Rebuilt(packet), p, packet.grant)
          /\ Viewable(apply(Rebuilt(packet), p, 0))

\* Another runtime admits and commits without a packet, with or without the
\* guard in its store.
CommitPlain(p) ==
    /\ head < CommitBound
    /\ TransitionGuard({}, p) \/ p \in Foreign
    /\ history' = Append(history, [proposal |-> p, packet |-> {}])
    /\ UNCHANGED <<cache, self>>

Notes == {NoTask} \cup [text : Texts, status : {"open", "closed"}, version : {0}]

Proposals ==
    [profile : {NoProfile} \cup [data : Profiles, revision : 1 .. CommitBound],
     notes : [Ids -> Notes], misuse : {FALSE}] \cup {[Null EXCEPT !.misuse = TRUE]}

SelfNext ==
    \/ \E r \in Runtimes :
          \/ Load(r) \/ EndStep(r) \/ CommitSelf(r) \/ DisposeSelf(r) \/ LoseRace(r) \/ Restart(r)
          \/ \E g \in Grants(self[r].head) : AdmitSelf(r, g)
          \/ \E p \in Proposals : Answer(r, p)
    \/ \E p \in Proposals : CommitPlain(p)

SelfSpec == SelfInit /\ [][SelfNext]_selfVars

-----------------------------------------------------------------------------
(* Properties.                                                             *)

\* A writer without the guard changed protected state.
Bypassed == \E i \in 2 .. head : history[i].packet = {} /\ protected_write(history[i].proposal)

\* While every writer of protected state is guarded, the history replays: whatever
\* grants were issued, accepted, lost to races or disposed of, the host can
\* inspect and run the subject again.
HistoryReplays == Bypassed \/ replay(head) # {}

\* What a runtime caches for a head, and so what it admits over, is what replay
\* computes for it, through commits, dispositions, lost races and other writers'
\* commits; a change that bypassed the policy is never admitted over.
CacheIsReplay ==
    \A r \in Runtimes : \A c \in cache[r] : replay(c.head) = {c.state}

\* The guard in the store accepts every proposal that SelfRuntime's own guard
\* accepted, although it sees only the packet and not the settled commitments.
GuardsAgree ==
    \A r \in Runtimes : In(r, "commit") => TransitionGuard({Packet(r)}, self[r].proposal)
=============================================================================
