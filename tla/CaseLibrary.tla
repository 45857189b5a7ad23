---------------------------- MODULE CaseLibrary ----------------------------
(***************************************************************************)
(* From the candidate cases of a test design run to what is executed: the  *)
(* candidates are edited, reviewed and audited, a run is published once as *)
(* a version of the formal case library, and suites and execution handoffs *)
(* select from such a version.  Candidates, library cases, suites and      *)
(* handoffs belong to different people, and every operation is one         *)
(* transaction of the state store, so that an operation finds whatever the *)
(* others have made of the state since its page was loaded                 *)
(* (test-design-service.ts, test-design/case-review.ts, library.ts and     *)
(* suites.ts).                                                             *)
(*                                                                         *)
(* A content is what the hashes tell apart: its sense (everything          *)
(* semanticContentSha256 covers) and whether it refers to the one          *)
(* requirement that has to be covered.  A content hash is the content.     *)
(***************************************************************************)
EXTENDS Integers, Sequences, FiniteSets, SequencesExt

CONSTANTS Runs,          \* runs of test designs of one open project version
          BaseCases,     \* the library cases of the inherited baseline
          Designed,      \* the candidates the design stage produces
          Added,         \* the candidates people may add
          Handwritten,   \* the library cases people may create
          Keys,          \* the keys of suite drafts
          RunOf,         \* the run of a candidate
          SourceOf,      \* the library case a designed candidate matches, or None
          Contents,      \* the contents people and the design stage write
          BaseContent,   \* the contents of the baseline
          None,
          MaxWrites      \* bound: contents, drafts and handoffs people write

Candidates == Designed \cup Added
LibraryIds == BaseCases \cup Candidates \cup Handwritten

ASSUME ConstantsAssumption ==
    /\ RunOf \in [Candidates -> Runs]
    /\ SourceOf \in [Candidates -> BaseCases \cup {None}]
    /\ \A c \in Added : SourceOf[c] = None
    /\ \A c, d \in Designed :
           RunOf[c] = RunOf[d] /\ SourceOf[c] = SourceOf[d] /\ SourceOf[c] # None => c = d
    /\ \A k \in Contents : DOMAIN k = {"sense", "covers"} /\ k.covers \in BOOLEAN
    /\ BaseContent \in [BaseCases -> Contents]
    /\ None \notin LibraryIds \cup Runs
    /\ Designed \cap Added = {}
    /\ BaseCases \cap Candidates = {} /\ Handwritten \cap (BaseCases \cup Candidates) = {}
    /\ MaxWrites \in Nat

VARIABLES library,    \* the library cases: a status and the contents of their revisions
          cases,      \* the candidates
          proposals,  \* per run: what a publication will do with each case
          audits,     \* per run: the cases of its valid coverage audit, or None
          versions,   \* the published versions of the library, the baseline first
          drafts, suites, handoffs,
          writes

vars == <<library, cases, proposals, audits, versions, drafts, suites, handoffs, writes>>

Absent == [status |-> "absent", revisions |-> <<>>]
Baseline == 1
Frozen(v) == DOMAIN versions[v].members

Exists(c) == cases[c].revisions # <<>>
Live(c) == Exists(c) /\ ~cases[c].tombstoned
Current(c) == Last(cases[c].revisions)
CasesOf(r) == {c \in Candidates : RunOf[c] = r}
Source(p) == versions[Baseline].content[p.source]

-----------------------------------------------------------------------------
(* The proposals of a run.                                                 *)

\* What a candidate means to the library.
Operation(source, content) ==
    IF source = None THEN "create"
    ELSE IF content.sense = versions[Baseline].content[source].sense THEN "reuse" ELSE "update"

NewProposal(source, c, content) ==
    [source |-> source, candidate |-> c, content |-> content,
     operation |-> Operation(source, content), decision |-> "pending"]

KeepProposal(ps, c, content) ==      \* mutant: an edit does not reach its proposal
    IF \E p \in ps : p.candidate = c
    THEN {IF p.candidate = c THEN [p EXCEPT !.content = content] ELSE p : p \in ps}
    ELSE ps \cup {NewProposal(None, c, content)}

\* ensureCandidateProposal: the proposal follows the content of its candidate,
\* and a change of sense or of operation takes back its decision.
EnsureProposal(ps, c, content) ==
    LET existing == {p \in ps : p.candidate = c}
        Follow(p) == LET op == Operation(p.source, content)
                     IN  [p EXCEPT !.operation = op, !.content = content,
                                   !.decision = IF op # p.operation \/ p.content.sense # content.sense
                                                THEN "pending" ELSE @]
    IN  IF existing = {} THEN ps \cup {NewProposal(None, c, content)}
        ELSE (ps \ existing) \cup {Follow(p) : p \in existing}

OrphanDeleted(ps, c) ==               \* mutant: the update stays, without its candidate
    {IF p.candidate = c THEN [p EXCEPT !.candidate = None, !.decision = "pending"]
     ELSE p : p \in {q \in ps : q.candidate # c \/ q.source # None}}

\* convertDeletedCandidateProposal: without its candidate an update falls back
\* to the frozen revision, a creation disappears.
ConvertDeleted(ps, c) ==
    {IF p.candidate = c
     THEN [p EXCEPT !.operation = "reuse", !.candidate = None, !.content = Source(p),
                    !.decision = "pending"]
     ELSE p : p \in {q \in ps : q.candidate # c \/ q.source # None}}

\* reconcileAutomaticProposalDecisions, given the candidates after the operation.
Reconciled(ps, cs) ==
    {IF /\ p.decision = "pending"
        /\ \/ p.operation = "reuse"
           \/ /\ p.candidate # None
              /\ ~cs[p.candidate].tombstoned
              /\ cs[p.candidate].state = "approved"
     THEN [p EXCEPT !.decision = "accepted"]
     ELSE p : p \in ps}

-----------------------------------------------------------------------------
(* The coverage audit.                                                     *)

\* buildEffectiveCaseSet: the frozen cases, overlaid with the updates and
\* followed by the creations whose candidate is live.
EffectiveCases(r) ==
    LET OfLive(op) == {p \in proposals[r] : /\ p.operation = op
                                            /\ p.candidate # None
                                            /\ Live(p.candidate)}
        UpdateOf(k) == {p \in OfLive("update") : p.source = k}
    IN  [k \in Frozen(Baseline) \cup {p.candidate : p \in OfLive("create")} |->
            IF k \notin Frozen(Baseline) THEN [revision |-> 1, content |-> Current(k)]
            ELSE IF UpdateOf(k) = {}
            THEN [revision |-> versions[Baseline].members[k], content |-> versions[Baseline].content[k]]
            ELSE LET p == CHOOSE p \in UpdateOf(k) : TRUE
                 IN  [revision |-> versions[Baseline].members[k] + 1, content |-> Current(p.candidate)]]

\* runCoverageAudit sees the effective cases; a requirement nobody covers blocks.
Blocked(audited) == \A k \in DOMAIN audited : ~audited[k].content.covers

InvalidateAudit(r) == audits' = [audits EXCEPT ![r] = None]

-----------------------------------------------------------------------------
NewCase(content, state) ==
    [revisions |-> <<content>>, state |-> state, tombstoned |-> FALSE, approvals |-> {}]
NoCase == [revisions |-> <<>>, state |-> "draft", tombstoned |-> FALSE, approvals |-> {}]

\* What materializeCaseDesign may make of a candidate: the match with the
\* baseline decides its content, and an exact match is approved by the service.
Materialized(c) ==
    IF c \in Added THEN {NoCase}
    ELSE IF SourceOf[c] = None
    THEN {NewCase(k, "in_review") : k \in {k \in Contents : \A b \in BaseCases : k.sense # BaseContent[b].sense}}
    ELSE {NewCase(k, IF k.sense = BaseContent[SourceOf[c]].sense THEN "approved" ELSE "in_review") : k \in Contents}

Init ==
    /\ library = [k \in LibraryIds |->
                     IF k \in BaseCases
                     THEN [status |-> "active",
                           revisions |-> <<BaseContent[k]>>]
                     ELSE Absent]
    /\ versions = <<[run     |-> None,
                     members |-> [k \in BaseCases |-> 1],
                     content |-> BaseContent,
                     audited |-> BaseContent]>>
    /\ cases \in [Candidates -> UNION {Materialized(c) : c \in Candidates}]
    /\ \A c \in Candidates : cases[c] \in Materialized(c)
    /\ proposals = [r \in Runs |-> Reconciled(
          {NewProposal(SourceOf[c], c, Current(c)) : c \in CasesOf(r) \cap Designed}
          \cup {NewProposal(b, None, versions[Baseline].content[b]) :
                    b \in BaseCases \ {SourceOf[c] : c \in CasesOf(r) \cap Designed}}, cases)]
    /\ audits = [r \in Runs |-> EffectiveCases(r)]
    /\ drafts = [k \in Keys |-> None]
    /\ suites = <<>>
    /\ handoffs = {}
    /\ writes = 0

-----------------------------------------------------------------------------
(* Candidates.                                                             *)

OfCandidates == <<library, versions, drafts, suites, handoffs>>

\* createCase: a new candidate goes straight to review.
CreateCase(c, content) ==
    /\ writes < MaxWrites /\ c \in Added /\ ~Exists(c)
    /\ cases' = [cases EXCEPT ![c] = NewCase(content, "in_review")]
    /\ proposals' = [proposals EXCEPT ![RunOf[c]] = EnsureProposal(@, c, content)]
    /\ InvalidateAudit(RunOf[c])
    /\ writes' = writes + 1
    /\ UNCHANGED OfCandidates

Edited(c, content) ==
    [cases EXCEPT ![c].revisions = Append(@, content), ![c].state = "draft"]

\* patchCase: the page was loaded at revision seen; a case in review or
\* approved is not edited.  The case may have been deleted meanwhile.
PatchCase(c, seen, content) ==
    /\ writes < MaxWrites /\ Exists(c)
    /\ cases[c].state \in {"draft", "needs_revision", "rejected"}
    /\ seen = Len(cases[c].revisions)
    /\ cases' = Edited(c, content)
    /\ proposals' = [proposals EXCEPT ![RunOf[c]] = EnsureProposal(@, c, content)]
    /\ InvalidateAudit(RunOf[c])
    /\ writes' = writes + 1
    /\ UNCHANGED OfCandidates

\* deleteCase: whatever its review state, and without a look at the page.
DeleteCase(c) ==
    /\ Exists(c)
    /\ cases' = [cases EXCEPT ![c].tombstoned = TRUE, ![c].state = "draft"]
    /\ proposals' = [proposals EXCEPT ![RunOf[c]] = ConvertDeleted(@, c)]
    /\ InvalidateAudit(RunOf[c])
    /\ UNCHANGED <<OfCandidates, writes>>

\* The transitions of applyReviewAction.
Transitions ==
    {<<"draft", "submit", "in_review">>,
     <<"in_review", "approve", "approved">>, <<"in_review", "reject", "rejected">>,
     <<"in_review", "request_revision", "needs_revision">>, <<"in_review", "withdraw", "draft">>,
     <<"approved", "request_revision", "needs_revision">>,
     <<"needs_revision", "submit", "in_review">>}

DecidableAnyRevision(c, target) == target \in DOMAIN cases[c].revisions   \* mutant

\* The reviewer decides on a revision, which must still be the current one.
Decidable(c, target) == Len(cases[c].revisions) = target

\* reviewCase and batchReview: one decision on one or several candidates of a
\* run, all or none; approvals is what reviewActions records of the approved
\* revisions.
Review(r, targets, decision) ==
    /\ \A c \in DOMAIN targets : Exists(c) /\ Decidable(c, targets[c])
    /\ \E next \in [DOMAIN targets -> {"in_review", "approved", "rejected", "needs_revision", "draft"}] :
          /\ \A c \in DOMAIN targets : <<cases[c].state, decision, next[c]>> \in Transitions
          /\ cases' = [c \in Candidates |->
                          IF c \notin DOMAIN targets THEN cases[c]
                          ELSE [cases[c] EXCEPT
                                   !.state = next[c],
                                   !.approvals = IF decision = "approve" THEN @ \cup {targets[c]} ELSE @]]
    /\ proposals' = [proposals EXCEPT ![r] = Reconciled(@, cases')]
    /\ UNCHANGED <<OfCandidates, audits, writes>>

\* reAudit.
ReAudit(r) ==
    /\ audits' = [audits EXCEPT ![r] = EffectiveCases(r)]
    /\ UNCHANGED <<OfCandidates, cases, proposals, writes>>

-----------------------------------------------------------------------------
(* The publication of a run.                                               *)

Published(r) == \E v \in DOMAIN versions : versions[v].run = r

\* Run again under the transaction, the audit must see what the audited page showed.
AuditHolds(r) ==
    /\ audits[r] # None
    /\ ~Blocked(audits[r])
    /\ EffectiveCases(r) = audits[r]

\* assertLibraryPublicationGates.
Reviewed(r) == \A c \in CasesOf(r) : Live(c) => cases[c].state = "approved"

\* assertLibraryBaselineMembersCurrent and assertProposalSourcesCurrent: the
\* frozen revisions still are what was frozen.
BaselineIntact ==
    \A k \in Frozen(Baseline) :
        library[k].revisions[versions[Baseline].members[k]] = versions[Baseline].content[k]

\* The number of a revision a publication creates.
NextRevision(p) == Len(library[p.source].revisions) + 1

\* applyProposalToLibrary of every proposal.
Applied(r, ps, k) ==
    LET p == CHOOSE p \in ps : IF k \in BaseCases THEN p.source = k
                                                  ELSE p.candidate = k /\ p.operation = "create"
    IN  CASE p.operation = "reuse" -> [revision |-> versions[Baseline].members[k],
                                       content  |-> library[k].revisions[versions[Baseline].members[k]]]
          [] p.operation = "update" -> [revision |-> NextRevision(p), content |-> Current(p.candidate)]
          [] p.operation = "create" -> [revision |-> 1, content |-> Current(p.candidate)]

\* A revision joins the history of its case under its number.
WithRevision(case, revision, content) ==
    [status    |-> "active",
     revisions |-> [n \in DOMAIN case.revisions \cup {revision} |->
                       IF n = revision THEN content ELSE case.revisions[n]]]

\* publishLibraryVersion: a run that is published already is not published
\* again; otherwise everything the page showed must still hold.
Publish(r) ==
    LET ps == Reconciled(proposals[r], cases)
        created == {p.candidate : p \in {q \in ps : q.operation = "create"}}
        member == [k \in Frozen(Baseline) \cup created |-> Applied(r, ps, k)]
        changed == {k \in DOMAIN member : \E p \in ps :
                       \/ p.operation = "update" /\ p.source = k
                       \/ p.operation = "create" /\ p.candidate = k}
    IN  /\ ~Published(r)
        /\ AuditHolds(r) /\ Reviewed(r) /\ BaselineIntact
        /\ \A p \in ps : p.decision = "accepted"
        /\ library' = [k \in LibraryIds |->
                          IF k \in changed
                          THEN WithRevision(library[k], member[k].revision, member[k].content)
                          ELSE library[k]]
        /\ versions' = Append(versions,
              [run     |-> r,
               members |-> [k \in DOMAIN member |-> member[k].revision],
               content |-> [k \in DOMAIN member |-> member[k].content],
               audited |-> [k \in DOMAIN audits[r] |-> audits[r][k].content]])
        /\ proposals' = [proposals EXCEPT ![r] = ps]
        /\ UNCHANGED <<cases, audits, drafts, suites, handoffs, writes>>

-----------------------------------------------------------------------------
(* Library cases.                                                          *)

OfLibrary == <<cases, proposals, audits, versions, drafts, suites, handoffs>>

\* createLibraryCase and copyLibraryCase.
CreateLibraryCase(k, content) ==
    /\ writes < MaxWrites /\ k \in Handwritten /\ library[k] = Absent
    /\ library' = [library EXCEPT ![k] = [status |-> "active", revisions |-> <<content>>]]
    /\ writes' = writes + 1
    /\ UNCHANGED OfLibrary

\* editLibraryCase.
EditLibraryCase(k, seen, content) ==
    /\ writes < MaxWrites /\ library[k].status = "active"
    /\ seen = Len(library[k].revisions)
    /\ library' = [library EXCEPT ![k].revisions = Append(@, content)]
    /\ writes' = writes + 1
    /\ UNCHANGED OfLibrary

\* deprecateLibraryCase: a further revision with the same content.
DeprecateLibraryCase(k, seen) ==
    /\ writes < MaxWrites /\ library[k] # Absent
    /\ seen = Len(library[k].revisions)
    /\ library' = [library EXCEPT ![k].revisions = Append(@, Last(@)), ![k].status = "deprecated"]
    /\ writes' = writes + 1
    /\ UNCHANGED OfLibrary

-----------------------------------------------------------------------------
(* Suites and handoffs.                                                    *)

OfSuites == <<library, cases, proposals, audits, versions>>

\* validateSuiteMembers: the members of the chosen version, at its revisions.
SuiteMembers(v, chosen) == [k \in chosen |-> versions[v].members[k]]

\* createSuiteDraft.
CreateSuiteDraft(key, v, chosen) ==
    /\ writes < MaxWrites /\ drafts[key] = None
    /\ drafts' = [drafts EXCEPT ![key] = [version |-> v, members |-> SuiteMembers(v, chosen),
                                          status |-> "draft"]]
    /\ writes' = writes + 1
    /\ UNCHANGED <<OfSuites, suites, handoffs>>

MigratedDraft(draft, v, chosen) ==   \* mutant: members kept over a change of version
    [draft EXCEPT !.version = v,
                  !.members = [k \in chosen |-> IF k \in DOMAIN @ THEN @[k]
                                                ELSE versions[v].members[k]]]

\* What updateSuiteDraft writes.
UpdatedDraft(draft, v, chosen) ==
    [draft EXCEPT !.version = v, !.members = SuiteMembers(v, chosen)]

\* updateSuiteDraft: a change of version that keeps members must be confirmed.
UpdateSuiteDraft(key, v, chosen, confirmed) ==
    /\ writes < MaxWrites /\ drafts[key] # None
    /\ drafts[key].status = "draft"
    /\ drafts[key].version # v /\ chosen \cap DOMAIN drafts[key].members # {} => confirmed
    /\ drafts' = [drafts EXCEPT ![key] = UpdatedDraft(@, v, chosen)]
    /\ writes' = writes + 1
    /\ UNCHANGED <<OfSuites, suites, handoffs>>

\* publishSuiteDraft.
PublishSuiteDraft(key) ==
    /\ drafts[key] # None /\ drafts[key].status = "draft"
    /\ DOMAIN drafts[key].members # {}
    /\ suites' = Append(suites, [key |-> key, version |-> drafts[key].version,
                                 members |-> drafts[key].members, status |-> "active"])
    /\ drafts' = [drafts EXCEPT ![key].status = "published"]
    /\ UNCHANGED <<OfSuites, handoffs, writes>>

\* deprecateSuiteVersion.
DeprecateSuite(s) ==
    /\ suites' = [suites EXCEPT ![s].status = "deprecated"]
    /\ UNCHANGED <<OfSuites, drafts, handoffs, writes>>

\* createLibraryHandoff: all members of a version, or those of an active suite
\* of this version and, for a regression, the cases a change has an impact on.
\* Handing off the same selection again returns the handoff there is.
HandOffAll(v) ==
    /\ writes < MaxWrites /\ writes' = writes + 1
    /\ handoffs' = handoffs \cup {[version |-> v, suite |-> 0, members |-> versions[v].members]}
    /\ UNCHANGED <<OfSuites, drafts, suites>>

Selectable(v, s) ==
    /\ suites[s].status = "active"
    /\ suites[s].version = v
    /\ \A k \in DOMAIN suites[s].members :
          k \in Frozen(v) /\ suites[s].members[k] = versions[v].members[k]

HandOffSuite(v, s, impacted) ==
    /\ writes < MaxWrites /\ writes' = writes + 1
    /\ Selectable(v, s)
    /\ handoffs' = handoffs \cup
          {[version |-> v, suite |-> s,
            members |-> [k \in DOMAIN suites[s].members \cup impacted |-> versions[v].members[k]]]}
    /\ UNCHANGED <<OfSuites, drafts, suites>>

-----------------------------------------------------------------------------
ReviewSome(r) ==
    \E chosen \in SUBSET CasesOf(r) :
    \E targets \in [chosen -> 1 .. 1 + MaxWrites] :
    \E decision \in {t[2] : t \in Transitions} : Review(r, targets, decision)

OfPeople(c, content) ==
    \/ CreateCase(c, content)
    \/ \E seen \in DOMAIN cases[c].revisions : PatchCase(c, seen, content)

OfKeepers(k, content) ==
    \/ CreateLibraryCase(k, content)
    \/ \E seen \in DOMAIN library[k].revisions : EditLibraryCase(k, seen, content)

OfTesters(v) ==
    \/ HandOffAll(v)
    \/ \E s \in DOMAIN suites : \E impacted \in SUBSET Frozen(v) : HandOffSuite(v, s, impacted)
    \/ \E key \in Keys : \E chosen \in SUBSET Frozen(v) :
          \/ CreateSuiteDraft(key, v, chosen)
          \/ \E confirmed \in BOOLEAN : UpdateSuiteDraft(key, v, chosen, confirmed)

Next ==
    \/ \E c \in Candidates, content \in Contents : OfPeople(c, content)
    \/ \E c \in Candidates : DeleteCase(c)
    \/ \E r \in Runs : ReviewSome(r) \/ ReAudit(r) \/ Publish(r)
    \/ \E k \in LibraryIds, content \in Contents : OfKeepers(k, content)
    \/ \E k \in LibraryIds : \E seen \in DOMAIN library[k].revisions : DeprecateLibraryCase(k, seen)
    \/ \E v \in DOMAIN versions : OfTesters(v)
    \/ \E key \in Keys : PublishSuiteDraft(key)
    \/ \E s \in DOMAIN suites : DeprecateSuite(s)

Spec == Init /\ [][Next]_vars

-----------------------------------------------------------------------------
IsSelection(m) == DOMAIN m \subseteq LibraryIds /\ \A k \in DOMAIN m : m[k] \in Nat \ {0}

\* Every part has its type; in particular a publication always finds the one
\* proposal it applies to each member.
TypeOK ==
    /\ \A k \in LibraryIds :
          /\ library[k].status \in {"absent", "active", "deprecated"}
          /\ library[k].revisions \in Seq(Contents)
    /\ \A c \in Candidates :
          /\ cases[c].revisions \in Seq(Contents)
          /\ cases[c].state \in {"draft", "in_review", "approved", "rejected", "needs_revision"}
          /\ cases[c].approvals \subseteq DOMAIN cases[c].revisions
    /\ \A r \in Runs :
          /\ \A b \in BaseCases : Cardinality({p \in proposals[r] : p.source = b}) = 1
          /\ \A p \in proposals[r] : p.operation = "create" <=> p.source = None
          /\ audits[r] # None => BaseCases \subseteq DOMAIN audits[r]
    /\ \A v \in DOMAIN versions : IsSelection(versions[v].members)
    /\ \A s \in DOMAIN suites : IsSelection(suites[s].members)
    /\ \A h \in handoffs : IsSelection(h.members)

\* Nothing reaches the formal library that no reviewer approved: every member
\* of a version is a frozen case of the baseline or has the content of a
\* revision that somebody approved while looking at that revision, whatever was
\* edited, withdrawn, deleted and resubmitted around the approval
\* (assertLibraryPublicationGates, applyReviewAction, patchCase).
PublishedWasReviewed ==
    \A v \in DOMAIN versions : \A k \in Frozen(v) :
        \/ k \in BaseCases /\ versions[v].members[k] = versions[Baseline].members[k]
        \/ \E c \in CasesOf(versions[v].run) : \E n \in cases[c].approvals :
              /\ k \in {c, SourceOf[c]}
              /\ cases[c].revisions[n] = versions[v].content[k]

\* The coverage audit in the summary of a version is about that version: what
\* buildEffectiveCaseSet showed the auditor and what applyProposalToLibrary
\* makes of the library, two functions that are computed at different times, are
\* the same cases with the same contents.
PublishedWasAudited == \A v \in DOMAIN versions : versions[v].content = versions[v].audited

\* What is published went through both gates in exactly its published form.
PublishedWasAccepted == PublishedWasReviewed /\ PublishedWasAudited

\* What is selected for execution stays what it was: the revision each version,
\* suite and handoff refers to has, in the library of now, the content its
\* version froze, through all later edits, deprecations and publications
\* (freezeLibraryVersionMember refuses the version otherwise).
SelectionsStayFrozen ==
    LET Intact(v, m) == \A k \in DOMAIN m :
            /\ k \in Frozen(v) /\ m[k] = versions[v].members[k]
            /\ m[k] \in DOMAIN library[k].revisions
            /\ library[k].revisions[m[k]] = versions[v].content[k]
    IN  /\ \A v \in DOMAIN versions : Intact(v, versions[v].members)
        /\ \A s \in DOMAIN suites : Intact(suites[s].version, suites[s].members)
        /\ \A h \in handoffs : Intact(h.version, h.members)

\* Library cases are edited and deprecated while runs that froze an older
\* revision are published: whoever comes second adds a revision, and no revision
\* of anybody is ever rewritten (createLibraryRevision, applyProposalToLibrary).
HistoryIsKept ==
    \A k \in LibraryIds : \A n \in DOMAIN library[k].revisions :
        library'[k].revisions[n] = library[k].revisions[n]

\* What was published or selected once is not changed by anything that comes later.
PublishedStaysPublished == [][SelectionsStayFrozen' /\ HistoryIsKept]_vars

\* Review is the only thing that keeps a run from publication, besides its
\* audit: once every live candidate is approved, each proposal is accepted or can
\* be, and the frozen revisions are what they were, whatever was edited, deleted
\* and withdrawn in which order, and whatever became of the library meanwhile
\* (ensureCandidateProposal, convertDeletedCandidateProposal,
\* reconcileAutomaticProposalDecisions, assertLibraryBaselineMembersCurrent).
\* The exception is the creation an edit of a deleted candidate leaves behind:
\* nobody can accept it, and only a second deletion takes it away.
ApprovedCanBePublished ==
    \A r \in Runs : Reviewed(r) =>
        /\ BaselineIntact
        /\ \A p \in Reconciled(proposals[r], cases) :
              \/ p.decision = "accepted"
              \/ p.operation = "create" /\ cases[p.candidate].tombstoned

\* The proposals are complete, one per case of the baseline, and approving the
\* candidates decides them all.
ReviewIsEnough == TypeOK /\ ApprovedCanBePublished

\* A publication leaves nothing out: each candidate that is live at that moment
\* is in the new version with the sense of its current revision, and each
\* case of the baseline is still a member.
EverythingLiveIsPublished ==
    [][\A r \in Runs : Published(r)' /\ ~Published(r) =>
          LET content == Last(versions').content IN
          /\ BaseCases \subseteq DOMAIN content
          /\ \A c \in CasesOf(r) : Live(c) =>
                \E k \in DOMAIN content \cap {c, SourceOf[c]} : content[k].sense = Current(c).sense]_vars
=============================================================================
