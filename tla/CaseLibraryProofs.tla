------------------------- MODULE CaseLibraryProofs -------------------------
(***************************************************************************)
(* The safety of CaseLibrary, for any number of runs, cases, contents and  *)
(* writes: what is published was reviewed and audited in that form, and    *)
(* stays what it is.                                                       *)
(*                                                                         *)
(* Inv says what holds between two operations: what a proposal is          *)
(* (Proposed), what an approval means (Approved), what the versions say of *)
(* the library (Kept) and what selections are (Selected).  Operations on   *)
(* candidates, on the library and on suites disturb one part each; only    *)
(* Publish reads all of them.                                              *)
(***************************************************************************)
EXTENDS CaseLibrary, TLAPS, FiniteSetTheorems, SequenceTheorems

States == {"draft", "in_review", "approved", "rejected", "needs_revision"}

Proposal == [source : BaseCases \cup {None}, candidate : Candidates \cup {None},
             content : Contents, operation : {"create", "reuse", "update"},
             decision : {"pending", "accepted"}]

IsSequence(s) == s \in Seq(ToSet(s))

\* A draft, a suite or a handoff selects members of its version.
Selects(s) ==
    /\ {"version", "members"} \subseteq DOMAIN s
    /\ s.version \in DOMAIN versions
    /\ DOMAIN s.members \subseteq Frozen(s.version)
    /\ \A k \in DOMAIN s.members : s.members[k] = versions[s.version].members[k]

CaseTypes ==
    cases \in [Candidates -> [revisions : Seq(Contents), state : States,
                              tombstoned : BOOLEAN, approvals : SUBSET Nat]]

LibraryTypes ==
    library \in [LibraryIds -> [status : {"absent", "active", "deprecated"},
                                revisions : Seq(Contents)]]

BaselineVersion == [run     |-> None,
                    members |-> [k \in BaseCases |-> 1],
                    content |-> BaseContent,
                    audited |-> BaseContent]

VersionTypes ==
    /\ IsSequence(versions) /\ versions # <<>> /\ IsSequence(suites)
    /\ \A v \in DOMAIN versions :
          versions[v].run \in Runs \cup {None} /\ IsSelection(versions[v].members)
    /\ versions[Baseline] = BaselineVersion

\* What the proposals ps of run r say, given the candidates cs: one per frozen case, one per
\* live candidate; a dead candidate is proposed only by an edit that came too late, and such
\* a proposal is never accepted.
Proposed(r, ps, cs) ==
    /\ ps \subseteq Proposal
    /\ \A b \in BaseCases : \E p \in ps : p.source = b
    /\ \A p, q \in ps : p.source = q.source /\ p.source # None => p = q
    /\ \A p, q \in ps : p.candidate = q.candidate /\ p.candidate # None => p = q
    /\ \A p \in ps : p.operation = IF p.source = None THEN "create"
                                   ELSE IF p.content.sense = BaseContent[p.source].sense
                                   THEN "reuse" ELSE "update"
    /\ \A p \in ps : p.candidate = None => p.operation = "reuse"
    /\ \A p \in ps : p.candidate # None =>
          LET c == p.candidate IN
          /\ RunOf[c] = r /\ cs[c].revisions # <<>>
          /\ p.content = Last(cs[c].revisions)
          /\ ~cs[c].tombstoned => p.source = SourceOf[c]
          /\ cs[c].tombstoned => p.source = None /\ p.decision = "pending"
    /\ \A c \in CasesOf(r) : cs[c].revisions # <<>> /\ ~cs[c].tombstoned =>
          \E p \in ps : p.candidate = c

\* An approved case has been approved at its present revision, by a reviewer or because it
\* is the frozen case.
Approved(c, case) ==
    /\ case.approvals \subseteq DOMAIN case.revisions
    /\ case.state = "approved" =>
          \/ Len(case.revisions) \in case.approvals
          \/ /\ SourceOf[c] # None
             /\ Last(case.revisions).sense = BaseContent[SourceOf[c]].sense

Kept ==
    /\ \A v \in DOMAIN versions :
          /\ DOMAIN versions[v].members = DOMAIN versions[v].content
          /\ \A k \in Frozen(v) :
                /\ versions[v].members[k] \in DOMAIN library[k].revisions
                /\ library[k].revisions[versions[v].members[k]] = versions[v].content[k]
    /\ \A c \in Candidates : ~Published(RunOf[c]) => library[c] = Absent

Selected ==
    /\ \A key \in Keys : drafts[key] # None => Selects(drafts[key])
    /\ \A s \in DOMAIN suites : Selects(suites[s])
    /\ \A h \in handoffs : Selects(h)

AuditsCover == \A r \in Runs : audits[r] # None => BaseCases \subseteq DOMAIN audits[r]

Inv ==
    /\ CaseTypes /\ LibraryTypes /\ VersionTypes
    /\ DOMAIN proposals = Runs /\ DOMAIN audits = Runs /\ DOMAIN drafts = Keys
    /\ \A r \in Runs : Proposed(r, proposals[r], cases)
    /\ \A c \in Candidates : Approved(c, cases[c])
    /\ Kept /\ Selected /\ AuditsCover
    /\ PublishedWasReviewed /\ PublishedWasAudited

-----------------------------------------------------------------------------
\* A sequence that gets one more element.
LEMMA Extended ==
    ASSUME NEW S, NEW s \in Seq(S), NEW e \in S
    PROVE  /\ Append(s, e) \in Seq(S) /\ Append(s, e) # <<>>
           /\ Len(s) \in Nat /\ Len(Append(s, e)) = Len(s) + 1
           /\ DOMAIN s = 1 .. Len(s) /\ DOMAIN Append(s, e) = 1 .. Len(s) + 1
           /\ \A i \in 1 .. Len(s) : Append(s, e)[i] = s[i]
           /\ Append(s, e)[Len(s) + 1] = e /\ Last(Append(s, e)) = e
<1>1. /\ Append(s, e) \in Seq(S) /\ Append(s, e) # <<>>
      /\ Len(s) \in Nat /\ Len(Append(s, e)) = Len(s) + 1
      /\ DOMAIN s = 1 .. Len(s) /\ DOMAIN Append(s, e) = 1 .. Len(s) + 1
      /\ \A i \in 1 .. Len(s) : Append(s, e)[i] = s[i]
      /\ Append(s, e)[Len(s) + 1] = e
  BY AppendProperties, LenProperties
<1> QED BY <1>1 DEF Last

LEMMA SequenceExtended ==
    ASSUME NEW s, IsSequence(s), NEW e
    PROVE  /\ IsSequence(Append(s, e)) /\ Append(s, e) # <<>>
           /\ Len(s) \in Nat /\ Len(Append(s, e)) = Len(s) + 1
           /\ DOMAIN s = 1 .. Len(s) /\ DOMAIN Append(s, e) = 1 .. Len(s) + 1
           /\ \A i \in 1 .. Len(s) : Append(s, e)[i] = s[i]
           /\ Append(s, e)[Len(s) + 1] = e /\ Last(Append(s, e)) = e
<1> DEFINE S == ToSet(s) \cup {e}
<1>1. s \in Seq(S) /\ e \in S
  BY SeqMonotonic DEF IsSequence
<1>2. /\ Append(s, e) \in Seq(S) /\ Append(s, e) # <<>>
      /\ Len(s) \in Nat /\ Len(Append(s, e)) = Len(s) + 1
      /\ DOMAIN s = 1 .. Len(s) /\ DOMAIN Append(s, e) = 1 .. Len(s) + 1
      /\ \A i \in 1 .. Len(s) : Append(s, e)[i] = s[i]
      /\ Append(s, e)[Len(s) + 1] = e /\ Last(Append(s, e)) = e
  <2> HIDE DEF S
  <2> QED BY <1>1, Extended
<1>3. IsSequence(Append(s, e))
  <2> DEFINE t == Append(s, e)
  <2>1. t \in Seq(S)
    BY <1>2
  <2> HIDE DEF t, S
  <2>2. t \in Seq(ToSet(t))
    BY <2>1, LenProperties, IsASeq DEF ToSet
  <2> QED BY <2>2 DEF IsSequence, t
<1> QED BY <1>2, <1>3

-----------------------------------------------------------------------------
\* The proposals of a run after each change of a candidate.

\* What Operation makes of a source and a content.
LEMMA OperationOf ==
    ASSUME VersionTypes, NEW s \in BaseCases \cup {None}, NEW content
    PROVE  /\ Operation(s, content) = IF s = None THEN "create"
                                      ELSE IF content.sense = BaseContent[s].sense
                                      THEN "reuse" ELSE "update"
           /\ Operation(s, content) \in {"create", "reuse", "update"}
BY DEF Operation, VersionTypes, BaselineVersion

LEMMA EnsureProposes ==
    ASSUME VersionTypes, NEW r \in Runs, NEW ps, NEW cs, Proposed(r, ps, cs),
           NEW c \in Candidates, RunOf[c] = r, NEW content \in Contents,
           NEW new, \A d \in Candidates : d # c => new[d] = cs[d],
           new[c].revisions # <<>>, Last(new[c].revisions) = content,
           cs[c].tombstoned \in BOOLEAN, new[c].tombstoned \in BOOLEAN,
           IF cs[c].revisions = <<>> THEN SourceOf[c] = None
                                     ELSE new[c].tombstoned = cs[c].tombstoned
    PROVE  Proposed(r, EnsureProposal(ps, c, content), new)
<1> DEFINE existing == {p \in ps : p.candidate = c}
           qs == EnsureProposal(ps, c, content)
           Follow(p) ==
               LET op == Operation(p.source, content)
               IN  [p EXCEPT !.operation = op, !.content = content,
                             !.decision = IF op # p.operation \/ p.content.sense # content.sense
                                          THEN "pending" ELSE @]
<1>1. None \notin Candidates /\ None \notin BaseCases /\ ps \subseteq Proposal
  BY ConstantsAssumption DEF LibraryIds, Proposed
<1>2. CASE existing = {}
  <2> DEFINE n == NewProposal(None, c, content)
  <2>1. qs = ps \cup {n}
    BY <1>2 DEF EnsureProposal
  <2>2. /\ n \in Proposal /\ n.source = None /\ n.candidate = c /\ n.content = content
        /\ n.operation = "create" /\ n.decision = "pending"
    BY DEF NewProposal, Operation, Proposal
  <2>3. ~new[c].tombstoned => SourceOf[c] = None
    BY <1>2 DEF Proposed, CasesOf
  <2>4. \A p \in ps : p.candidate # c
    BY <1>2
  <2> HIDE DEF n, qs
  <2>5. /\ \A b \in BaseCases : \E q \in qs : q.source = b
        /\ \A q, w \in qs : q.source = w.source /\ q.source # None => q = w
        /\ \A q, w \in qs : q.candidate = w.candidate /\ q.candidate # None => q = w
    BY <1>1, <2>1, <2>2, <2>4 DEF Proposed
  <2>6. /\ qs \subseteq Proposal
        /\ \A q \in qs : q.operation = IF q.source = None THEN "create"
                                   ELSE IF q.content.sense = BaseContent[q.source].sense
                                   THEN "reuse" ELSE "update"
        /\ \A q \in qs : q.candidate = None => q.operation = "reuse"
    BY <1>1, <2>1, <2>2 DEF Proposed
  <2>7. \A q \in qs : q.candidate # None =>
          LET d == q.candidate IN
          /\ RunOf[d] = r /\ new[d].revisions # <<>>
          /\ q.content = Last(new[d].revisions)
          /\ ~new[d].tombstoned => q.source = SourceOf[d]
          /\ new[d].tombstoned => q.source = None /\ q.decision = "pending"
    <3>1. ASSUME NEW q \in ps, q.candidate # None
          PROVE  q.candidate \in Candidates /\ q.candidate # c
      BY <1>1, <2>4, <3>1 DEF Proposal
    <3> QED BY <2>1, <2>2, <2>3, <3>1 DEF Proposed
  <2>8. \A d \in CasesOf(r) : new[d].revisions # <<>> /\ ~new[d].tombstoned =>
          \E q \in qs : q.candidate = d
    BY <2>1, <2>2 DEF Proposed, CasesOf
  <2> QED BY <2>5, <2>6, <2>7, <2>8 DEF Proposed, qs
<1>3. CASE existing # {}
  <2>1. PICK p \in ps : p.candidate = c
    BY <1>3
  <2>2. existing = {p} /\ new[c].tombstoned = cs[c].tombstoned
    BY <1>1, <2>1 DEF Proposed
  <2>3. qs = (ps \ {p}) \cup {Follow(p)}
    BY <1>3, <2>2 DEF EnsureProposal
  <2>4. p \in Proposal
    BY <1>1, <2>1
  <2> DEFINE f == Follow(p)
  <2>5. /\ f \in Proposal /\ f.source = p.source /\ f.candidate = c /\ f.content = content
        /\ f.operation = Operation(p.source, content)
        /\ p.decision = "pending" => f.decision = "pending"
    BY <2>1, <2>4, OperationOf DEF Proposal
  <2>6. f.operation = IF p.source = None THEN "create"
                      ELSE IF content.sense = BaseContent[p.source].sense
                      THEN "reuse" ELSE "update"
    <3>1. p.source \in BaseCases \cup {None}
      BY <2>4 DEF Proposal
    <3> HIDE DEF f
    <3> QED BY <2>5, <3>1, OperationOf
  <2> HIDE DEF f, qs
  <2>7. qs = (ps \ {p}) \cup {f}
    BY <2>3 DEF f
  <2>8. \A q \in ps : q # p => q.candidate # c /\ (p.source # None => q.source # p.source)
    BY <1>1, <2>1 DEF Proposed
  <2>9. /\ \A b \in BaseCases : \E q \in qs : q.source = b
        /\ \A q, w \in qs : q.source = w.source /\ q.source # None => q = w
        /\ \A q, w \in qs : q.candidate = w.candidate /\ q.candidate # None => q = w
    BY <1>1, <2>1, <2>5, <2>7, <2>8 DEF Proposed
  <2>10. /\ qs \subseteq Proposal
         /\ \A q \in qs : q.operation = IF q.source = None THEN "create"
                                   ELSE IF q.content.sense = BaseContent[q.source].sense
                                   THEN "reuse" ELSE "update"
         /\ \A q \in qs : q.candidate = None => q.operation = "reuse"
    BY <1>1, <2>1, <2>5, <2>6, <2>7 DEF Proposed
  <2>11. \A q \in qs : q.candidate # None =>
          LET d == q.candidate IN
          /\ RunOf[d] = r /\ new[d].revisions # <<>>
          /\ q.content = Last(new[d].revisions)
          /\ ~new[d].tombstoned => q.source = SourceOf[d]
          /\ new[d].tombstoned => q.source = None /\ q.decision = "pending"
    <3>1. ASSUME NEW q \in ps, q # p, q.candidate # None
          PROVE  q.candidate \in Candidates /\ q.candidate # c
      BY <1>1, <2>8, <3>1 DEF Proposal
    <3> QED BY <2>1, <2>2, <2>5, <2>7, <3>1 DEF Proposed
  <2>12. \A d \in CasesOf(r) : new[d].revisions # <<>> /\ ~new[d].tombstoned =>
          \E q \in qs : q.candidate = d
    BY <2>1, <2>5, <2>7, <2>8 DEF Proposed, CasesOf
  <2> QED BY <2>9, <2>10, <2>11, <2>12 DEF Proposed, qs
<1> QED BY <1>2, <1>3

LEMMA ConvertProposes ==
    ASSUME VersionTypes, NEW r \in Runs, NEW ps, NEW cs, Proposed(r, ps, cs),
           NEW c \in Candidates, NEW new, \A d \in Candidates : d # c => new[d] = cs[d],
           new[c].tombstoned = TRUE
    PROVE  Proposed(r, ConvertDeleted(ps, c), new)
<1> DEFINE Back(p) == [p EXCEPT !.operation = "reuse", !.candidate = None,
                                !.content = Source(p), !.decision = "pending"]
           kept == {q \in ps : q.candidate # c}
           fallen == {q \in ps : q.candidate = c /\ q.source # None}
           qs == ConvertDeleted(ps, c)
<1>1. None \notin Candidates /\ None \notin BaseCases /\ ps \subseteq Proposal
      /\ BaseContent \in [BaseCases -> Contents]
  BY ConstantsAssumption DEF LibraryIds, Proposed
<1>2. ASSUME NEW p \in fallen
      PROVE  /\ Back(p) \in Proposal /\ Back(p).source = p.source /\ Back(p).candidate = None
             /\ Back(p).content = BaseContent[p.source] /\ Back(p).operation = "reuse"
             /\ p.source \in BaseCases
  <2>1. p \in Proposal /\ p.source \in BaseCases
    BY <1>1 DEF Proposal
  <2>2. Source(p) = BaseContent[p.source] /\ Source(p) \in Contents
    BY <1>1, <2>1 DEF Source, VersionTypes, BaselineVersion
  <2> QED BY <2>1, <2>2 DEF Proposal
<1>3. qs = kept \cup {Back(p) : p \in fallen}
  BY DEF ConvertDeleted
<1> HIDE DEF Back, qs
<1>4. \A q \in qs : q \in kept \/ \E p \in fallen : q = Back(p)
  BY <1>3
<1>5. \A p \in fallen : Back(p) \in qs
  BY <1>3
<1>6. \A p \in kept : p \in qs /\ p \in ps /\ p.candidate # c
  BY <1>3
<1>7. \A b \in BaseCases : \E q \in qs : q.source = b
  <2> TAKE b \in BaseCases
  <2>1. PICK p \in ps : p.source = b
    BY DEF Proposed
  <2>2. p \in kept \/ p \in fallen
    BY <1>1, <2>1
  <2> QED BY <1>2, <1>5, <1>6, <2>1, <2>2
<1>8. \A q, w \in qs : q.source = w.source /\ q.source # None => q = w
  <2> SUFFICES ASSUME NEW q \in qs, NEW w \in qs, q.source = w.source, q.source # None
               PROVE  q = w
    OBVIOUS
  <2>1. PICK p \in ps : p.source = q.source /\ (IF p \in kept THEN q = p ELSE p \in fallen /\ q = Back(p))
    BY <1>2, <1>4
  <2>2. PICK o \in ps : o.source = w.source /\ (IF o \in kept THEN w = o ELSE o \in fallen /\ w = Back(o))
    BY <1>2, <1>4
  <2>3. p = o
    BY <2>1, <2>2 DEF Proposed
  <2> QED BY <2>1, <2>2, <2>3
<1>9. \A q, w \in qs : q.candidate = w.candidate /\ q.candidate # None => q = w
  BY <1>2, <1>4, <1>6 DEF Proposed
<1>10. /\ qs \subseteq Proposal
       /\ \A q \in qs : q.operation = IF q.source = None THEN "create"
                                   ELSE IF q.content.sense = BaseContent[q.source].sense
                                   THEN "reuse" ELSE "update"
       /\ \A q \in qs : q.candidate = None => q.operation = "reuse"
  BY <1>1, <1>2, <1>4, <1>6 DEF Proposed
<1>11. \A q \in qs : q.candidate # None =>
          LET d == q.candidate IN
          /\ RunOf[d] = r /\ new[d].revisions # <<>>
          /\ q.content = Last(new[d].revisions)
          /\ ~new[d].tombstoned => q.source = SourceOf[d]
          /\ new[d].tombstoned => q.source = None /\ q.decision = "pending"
  <2>1. ASSUME NEW q \in qs, q.candidate # None
        PROVE  q \in ps /\ q.candidate # c /\ q.candidate \in Candidates
    BY <1>1, <1>2, <1>4, <1>6, <2>1 DEF Proposal
  <2> QED BY <2>1 DEF Proposed
<1>12. \A d \in CasesOf(r) : new[d].revisions # <<>> /\ ~new[d].tombstoned =>
          \E q \in qs : q.candidate = d
  <2> SUFFICES ASSUME NEW d \in CasesOf(r), new[d].revisions # <<>>, ~new[d].tombstoned
               PROVE  \E q \in qs : q.candidate = d
    OBVIOUS
  <2>1. d # c /\ d \in Candidates
    BY DEF CasesOf
  <2>2. PICK p \in ps : p.candidate = d
    BY <2>1 DEF Proposed
  <2> QED BY <1>3, <2>1, <2>2
<1> QED BY <1>7, <1>8, <1>9, <1>10, <1>11, <1>12 DEF Proposed, qs

\* Reconciling accepts what may be accepted and changes nothing else.
LEMMA ReconcileProposes ==
    ASSUME NEW r \in Runs, NEW ps, NEW cs, Proposed(r, ps, cs)
    PROVE  Proposed(r, Reconciled(ps, cs), cs)
<1> DEFINE Fits(p) == /\ p.decision = "pending"
                      /\ \/ p.operation = "reuse"
                         \/ /\ p.candidate # None
                            /\ ~cs[p.candidate].tombstoned
                            /\ cs[p.candidate].state = "approved"
           Settle(p) == IF Fits(p) THEN [p EXCEPT !.decision = "accepted"] ELSE p
           qs == Reconciled(ps, cs)
<1>1. qs = {Settle(p) : p \in ps} /\ ps \subseteq Proposal
  BY DEF Reconciled, Proposed
<1>2. ASSUME NEW p \in ps
      PROVE  /\ Settle(p) \in Proposal /\ Settle(p).source = p.source
             /\ Settle(p).candidate = p.candidate /\ Settle(p).content = p.content
             /\ Settle(p).operation = p.operation
             /\ Settle(p).decision # p.decision =>
                   p.operation = "reuse" \/ ~cs[p.candidate].tombstoned
  <2>1. p \in Proposal
    BY <1>1
  <2> QED BY <2>1 DEF Proposal
<1> HIDE DEF Settle, qs
<1>3. \A q \in qs : \E p \in ps : q = Settle(p)
  BY <1>1
<1>4. \A p \in ps : Settle(p) \in qs
  BY <1>1
<1>5. /\ \A b \in BaseCases : \E q \in qs : q.source = b
      /\ \A d \in CasesOf(r) : cs[d].revisions # <<>> /\ ~cs[d].tombstoned =>
            \E q \in qs : q.candidate = d
  BY <1>2, <1>4 DEF Proposed
<1>6. /\ \A q, w \in qs : q.source = w.source /\ q.source # None => q = w
      /\ \A q, w \in qs : q.candidate = w.candidate /\ q.candidate # None => q = w
  BY <1>2, <1>3 DEF Proposed
<1>7. /\ qs \subseteq Proposal
      /\ \A q \in qs : q.operation = IF q.source = None THEN "create"
                                   ELSE IF q.content.sense = BaseContent[q.source].sense
                                   THEN "reuse" ELSE "update"
      /\ \A q \in qs : q.candidate = None => q.operation = "reuse"
  BY <1>2, <1>3 DEF Proposed
<1>8. ASSUME NEW q \in qs, q.candidate # None
      PROVE  LET d == q.candidate IN
             /\ RunOf[d] = r /\ cs[d].revisions # <<>>
             /\ q.content = Last(cs[d].revisions)
             /\ ~cs[d].tombstoned => q.source = SourceOf[d]
             /\ cs[d].tombstoned => q.source = None /\ q.decision = "pending"
  <2>1. PICK p \in ps : q = Settle(p)
    BY <1>3
  <2>2. /\ q.source = p.source /\ q.candidate = p.candidate /\ q.content = p.content
        /\ q.decision # p.decision => p.operation = "reuse" \/ ~cs[p.candidate].tombstoned
    BY <1>2, <2>1
  <2>3. p.source = None => p.operation = "create"
    BY DEF Proposed
  <2> QED BY <1>8, <2>2, <2>3 DEF Proposed
<1> QED BY <1>5, <1>6, <1>7, <1>8 DEF Proposed, qs

\* The proposals read no more of the candidates of their run than these two fields.
LEMMA StillProposes ==
    ASSUME NEW r \in Runs, NEW ps, NEW cs, Proposed(r, ps, cs), NEW new,
           \A d \in CasesOf(r) : /\ new[d].revisions = cs[d].revisions
                                 /\ new[d].tombstoned = cs[d].tombstoned
    PROVE  Proposed(r, ps, new)
<1>1. \A p \in ps : p.candidate # None => p.candidate \in CasesOf(r)
  BY DEF Proposed, Proposal, CasesOf
<1> QED BY <1>1 DEF Proposed

-----------------------------------------------------------------------------
\* What the operations of each kind leave alone.

LEMMA CandidateStep ==
    ASSUME Inv, UNCHANGED OfCandidates, CaseTypes', DOMAIN proposals' = Runs,
           DOMAIN audits' = Runs, AuditsCover',
           \A r \in Runs : Proposed(r, proposals'[r], cases'),
           \A c \in Candidates : Approved(c, cases'[c]),
           \A c \in Candidates : \A n \in cases[c].approvals :
              n \in cases'[c].approvals /\ cases'[c].revisions[n] = cases[c].revisions[n]
    PROVE  Inv'
<1>1. /\ library' = library /\ versions' = versions /\ drafts' = drafts
      /\ suites' = suites /\ handoffs' = handoffs
  BY DEF OfCandidates
<1>2. LibraryTypes' /\ VersionTypes' /\ DOMAIN drafts' = Keys
  BY <1>1 DEF Inv, LibraryTypes, VersionTypes
<1>3. Kept' /\ Selected'
  BY <1>1 DEF Inv, Kept, Selected, Selects, Published, Frozen
<1>4. PublishedWasAudited'
  BY <1>1 DEF Inv, PublishedWasAudited
<1>5. PublishedWasReviewed'
  <2> SUFFICES ASSUME NEW v \in DOMAIN versions, NEW k \in Frozen(v)
               PROVE  \/ k \in BaseCases /\ versions[v].members[k] = versions[Baseline].members[k]
                      \/ \E c \in CasesOf(versions[v].run) : \E n \in cases'[c].approvals :
                            /\ k \in {c, SourceOf[c]}
                            /\ cases'[c].revisions[n] = versions[v].content[k]
    BY <1>1 DEF PublishedWasReviewed, Frozen
  <2>1. CASE k \in BaseCases /\ versions[v].members[k] = versions[Baseline].members[k]
    BY <2>1
  <2>2. CASE \E c \in CasesOf(versions[v].run) : \E n \in cases[c].approvals :
                /\ k \in {c, SourceOf[c]}
                /\ cases[c].revisions[n] = versions[v].content[k]
    BY <2>2 DEF CasesOf
  <2> QED BY <2>1, <2>2 DEF Inv, PublishedWasReviewed
<1> QED BY <1>2, <1>3, <1>4, <1>5 DEF Inv

LEMMA LibraryStep ==
    ASSUME Inv, UNCHANGED OfLibrary, LibraryTypes',
           \A k \in LibraryIds : \A n \in DOMAIN library[k].revisions :
              /\ n \in DOMAIN library'[k].revisions
              /\ library'[k].revisions[n] = library[k].revisions[n],
           \A k \in LibraryIds : library[k] = Absent /\ k \notin Handwritten => library'[k] = Absent
    PROVE  Inv' /\ HistoryIsKept
<1>1. /\ cases' = cases /\ proposals' = proposals /\ audits' = audits
      /\ versions' = versions /\ drafts' = drafts
      /\ suites' = suites /\ handoffs' = handoffs
  BY DEF OfLibrary
<1>2. /\ CaseTypes' /\ VersionTypes' /\ Selected' /\ AuditsCover'
      /\ PublishedWasReviewed' /\ PublishedWasAudited'
  BY <1>1 DEF Inv, CaseTypes, VersionTypes, Selected, Selects, AuditsCover, Frozen,
              PublishedWasReviewed, PublishedWasAudited
<1>3. \A v \in DOMAIN versions : Frozen(v) \subseteq LibraryIds
  BY DEF Inv, VersionTypes, IsSelection, Frozen
<1>4. Kept'
  <2>1. ASSUME NEW v \in DOMAIN versions, NEW k \in Frozen(v)
        PROVE  /\ versions[v].members[k] \in DOMAIN library'[k].revisions
               /\ library'[k].revisions[versions[v].members[k]] = versions[v].content[k]
    BY <1>3 DEF Inv, Kept
  <2>2. \A c \in Candidates : ~Published(RunOf[c]) => library'[c] = Absent
    BY ConstantsAssumption DEF Inv, Kept, LibraryIds
  <2>3. \A v \in DOMAIN versions : DOMAIN versions[v].members = DOMAIN versions[v].content
    BY DEF Inv, Kept
  <2> QED BY <1>1, <2>1, <2>2, <2>3 DEF Kept, Published, Frozen
<1> QED BY <1>1, <1>2, <1>4 DEF Inv, HistoryIsKept

LEMMA SelectionStep ==
    ASSUME Inv, UNCHANGED OfSuites, IsSequence(suites)', DOMAIN drafts' = Keys, Selected'
    PROVE  Inv'
<1>1. /\ cases' = cases /\ proposals' = proposals /\ audits' = audits
      /\ versions' = versions /\ library' = library
  BY DEF OfSuites
<1>2. /\ CaseTypes' /\ LibraryTypes' /\ VersionTypes' /\ AuditsCover' /\ Kept'
      /\ PublishedWasReviewed' /\ PublishedWasAudited'
  BY <1>1 DEF Inv, CaseTypes, LibraryTypes, VersionTypes, AuditsCover, Frozen, Kept, Published,
              PublishedWasReviewed, PublishedWasAudited
<1> QED BY <1>1, <1>2 DEF Inv

-----------------------------------------------------------------------------
\* The operations on candidates.

LEMMA CreateCaseInv ==
    ASSUME Inv, NEW c \in Candidates, NEW content \in Contents, CreateCase(c, content)
    PROVE  Inv'
<1>1. /\ cases' = [cases EXCEPT ![c] = NewCase(content, "in_review")]
      /\ proposals' = [proposals EXCEPT ![RunOf[c]] = EnsureProposal(@, c, content)]
      /\ audits' = [audits EXCEPT ![RunOf[c]] = None]
      /\ UNCHANGED OfCandidates /\ SourceOf[c] = None /\ cases[c].revisions = <<>>
      /\ RunOf[c] \in Runs
  BY ConstantsAssumption DEF CreateCase, InvalidateAudit, Exists
<1>2. /\ cases'[c].revisions = <<content>> /\ cases'[c].state = "in_review"
      /\ cases'[c].tombstoned = FALSE /\ cases'[c].approvals = {}
      /\ \A d \in Candidates : d # c => cases'[d] = cases[d]
      /\ CaseTypes'
  BY <1>1 DEF Inv, CaseTypes, NewCase, States
<1>3. ASSUME NEW r \in Runs
      PROVE  Proposed(r, proposals'[r], cases')
  <2>1. CASE r = RunOf[c]
    <3>1. Last(<<content>>) = content /\ <<content>> # <<>>
      BY DEF Last
    <3>2. proposals'[r] = EnsureProposal(proposals[r], c, content)
      BY <1>1, <2>1 DEF Inv
    <3>3. VersionTypes /\ Proposed(r, proposals[r], cases) /\ cases[c].tombstoned \in BOOLEAN
      BY DEF Inv, CaseTypes
    <3>4. /\ RunOf[c] = r /\ cases'[c].revisions # <<>> /\ Last(cases'[c].revisions) = content
          /\ cases'[c].tombstoned \in BOOLEAN
          /\ IF cases[c].revisions = <<>> THEN SourceOf[c] = None
                                          ELSE cases'[c].tombstoned = cases[c].tombstoned
      BY <1>1, <1>2, <2>1, <3>1
    <3>5. \A d \in Candidates : d # c => cases'[d] = cases[d]
      BY <1>2
    <3>6. Proposed(r, EnsureProposal(proposals[r], c, content), cases')
      BY <3>3, <3>4, <3>5, EnsureProposes
    <3> QED BY <3>2, <3>6
  <2>2. CASE r # RunOf[c]
    <3>1. proposals'[r] = proposals[r] /\ Proposed(r, proposals[r], cases)
      BY <1>1, <2>2 DEF Inv
    <3>2. \A d \in CasesOf(r) : cases'[d] = cases[d]
      BY <1>2, <2>2 DEF CasesOf
    <3> QED BY <3>1, <3>2, StillProposes
  <2> QED BY <2>1, <2>2
<1>4. \A d \in Candidates : Approved(d, cases'[d])
  BY <1>2 DEF Inv, Approved
<1>5. cases[c].approvals = {}
  BY <1>1 DEF Inv, Approved
<1>6. DOMAIN proposals' = Runs /\ DOMAIN audits' = Runs /\ AuditsCover'
  BY <1>1 DEF Inv, AuditsCover
<1> QED BY <1>1, <1>2, <1>3, <1>4, <1>5, <1>6, CandidateStep

LEMMA PatchCaseInv ==
    ASSUME Inv, NEW c \in Candidates, NEW content \in Contents, NEW seen,
           PatchCase(c, seen, content)
    PROVE  Inv'
<1>1. /\ cases' = [cases EXCEPT ![c].revisions = Append(@, content), ![c].state = "draft"]
      /\ proposals' = [proposals EXCEPT ![RunOf[c]] = EnsureProposal(@, c, content)]
      /\ audits' = [audits EXCEPT ![RunOf[c]] = None]
      /\ UNCHANGED OfCandidates /\ cases[c].revisions # <<>>
      /\ RunOf[c] \in Runs
  BY ConstantsAssumption DEF PatchCase, InvalidateAudit, Exists, Edited
<1> DEFINE old == cases[c].revisions
           s == Append(old, content)
<1>2. /\ s \in Seq(Contents) /\ s # <<>> /\ Last(s) = content
      /\ \A i \in DOMAIN old : i \in DOMAIN s /\ s[i] = old[i]
      /\ old \in Seq(Contents)
  <2>1. old \in Seq(Contents)
    BY DEF Inv, CaseTypes
  <2> HIDE DEF old
  <2> QED BY <2>1, Extended
<1>3. /\ cases'[c].revisions = s /\ cases'[c].state = "draft"
      /\ cases'[c].tombstoned = cases[c].tombstoned /\ cases'[c].approvals = cases[c].approvals
      /\ \A d \in Candidates : d # c => cases'[d] = cases[d]
      /\ cases[c].tombstoned \in BOOLEAN
  BY <1>1 DEF Inv, CaseTypes
<1>4. CaseTypes'
  <2> HIDE DEF s
  <2>1. cases' = [cases EXCEPT ![c].revisions = s, ![c].state = "draft"]
    BY <1>1 DEF s
  <2> QED BY <1>2, <2>1 DEF Inv, CaseTypes, States
<1> HIDE DEF s
<1>5. ASSUME NEW r \in Runs
      PROVE  Proposed(r, proposals'[r], cases')
  <2>1. CASE r = RunOf[c]
    <3>1. proposals'[r] = EnsureProposal(proposals[r], c, content)
      BY <1>1, <2>1 DEF Inv
    <3>2. VersionTypes /\ Proposed(r, proposals[r], cases)
      BY DEF Inv
    <3>3. /\ RunOf[c] = r /\ cases'[c].revisions # <<>> /\ Last(cases'[c].revisions) = content
          /\ cases[c].tombstoned \in BOOLEAN /\ cases'[c].tombstoned \in BOOLEAN
          /\ IF cases[c].revisions = <<>> THEN SourceOf[c] = None
                                          ELSE cases'[c].tombstoned = cases[c].tombstoned
      BY <1>1, <1>2, <1>3, <2>1
    <3>4. \A d \in Candidates : d # c => cases'[d] = cases[d]
      BY <1>3
    <3>5. Proposed(r, EnsureProposal(proposals[r], c, content), cases')
      BY <3>2, <3>3, <3>4, EnsureProposes
    <3> QED BY <3>1, <3>5
  <2>2. CASE r # RunOf[c]
    <3>1. proposals'[r] = proposals[r] /\ Proposed(r, proposals[r], cases)
      BY <1>1, <2>2 DEF Inv
    <3>2. \A d \in CasesOf(r) : cases'[d] = cases[d]
      BY <1>3, <2>2 DEF CasesOf
    <3> QED BY <3>1, <3>2, StillProposes
  <2> QED BY <2>1, <2>2
<1>6. cases[c].approvals \subseteq DOMAIN old
  BY DEF Inv, Approved
<1>7. \A d \in Candidates : Approved(d, cases'[d])
  BY <1>2, <1>3, <1>6 DEF Inv, Approved
<1>8. DOMAIN proposals' = Runs /\ DOMAIN audits' = Runs /\ AuditsCover'
  BY <1>1 DEF Inv, AuditsCover
<1> QED BY <1>1, <1>2, <1>3, <1>4, <1>5, <1>6, <1>7, <1>8, CandidateStep

LEMMA DeleteCaseInv ==
    ASSUME Inv, NEW c \in Candidates, DeleteCase(c)
    PROVE  Inv'
<1>1. /\ cases' = [cases EXCEPT ![c].tombstoned = TRUE, ![c].state = "draft"]
      /\ proposals' = [proposals EXCEPT ![RunOf[c]] = ConvertDeleted(@, c)]
      /\ audits' = [audits EXCEPT ![RunOf[c]] = None]
      /\ UNCHANGED OfCandidates /\ RunOf[c] \in Runs
  BY ConstantsAssumption DEF DeleteCase, InvalidateAudit
<1>2. /\ cases'[c].revisions = cases[c].revisions /\ cases'[c].state = "draft"
      /\ cases'[c].tombstoned = TRUE /\ cases'[c].approvals = cases[c].approvals
      /\ \A d \in Candidates : d # c => cases'[d] = cases[d]
      /\ CaseTypes'
  BY <1>1 DEF Inv, CaseTypes, States
<1>3. ASSUME NEW r \in Runs
      PROVE  Proposed(r, proposals'[r], cases')
  <2>1. CASE r = RunOf[c]
    <3>1. proposals'[r] = ConvertDeleted(proposals[r], c)
      BY <1>1, <2>1 DEF Inv
    <3>2. VersionTypes /\ Proposed(r, proposals[r], cases)
      BY DEF Inv
    <3>3. Proposed(r, ConvertDeleted(proposals[r], c), cases')
      BY <1>2, <3>2, ConvertProposes
    <3> QED BY <3>1, <3>3
  <2>2. CASE r # RunOf[c]
    <3>1. proposals'[r] = proposals[r] /\ Proposed(r, proposals[r], cases)
      BY <1>1, <2>2 DEF Inv
    <3>2. \A d \in CasesOf(r) : cases'[d] = cases[d]
      BY <1>2, <2>2 DEF CasesOf
    <3> QED BY <3>1, <3>2, StillProposes
  <2> QED BY <2>1, <2>2
<1>4. \A d \in Candidates : Approved(d, cases'[d])
  BY <1>2 DEF Inv, Approved
<1>5. DOMAIN proposals' = Runs /\ DOMAIN audits' = Runs /\ AuditsCover'
  BY <1>1 DEF Inv, AuditsCover
<1> QED BY <1>1, <1>2, <1>3, <1>4, <1>5, CandidateStep

LEMMA ReviewInv ==
    ASSUME Inv, NEW r \in Runs, ReviewSome(r)
    PROVE  Inv'
<1>1. PICK chosen \in SUBSET CasesOf(r) :
      \E targets \in [chosen -> 1 .. 1 + MaxWrites] :
      \E decision \in {t[2] : t \in Transitions} : Review(r, targets, decision)
  BY DEF ReviewSome
<1>2. PICK targets \in [chosen -> 1 .. 1 + MaxWrites] :
      \E decision \in {t[2] : t \in Transitions} : Review(r, targets, decision)
  BY <1>1
<1>3. PICK decision \in {t[2] : t \in Transitions} : Review(r, targets, decision)
  BY <1>2
<1>4. /\ DOMAIN targets = chosen /\ chosen \subseteq Candidates
      /\ \A c \in chosen : targets[c] \in Nat
  BY ConstantsAssumption DEF CasesOf
<1>5. /\ proposals' = [proposals EXCEPT ![r] = Reconciled(@, cases')]
      /\ UNCHANGED OfCandidates /\ audits' = audits
      /\ \A c \in chosen : cases[c].revisions # <<>> /\ Len(cases[c].revisions) = targets[c]
  BY <1>3, <1>4 DEF Review, Exists, Decidable
<1> DEFINE Approving(c) == IF decision = "approve" THEN cases[c].approvals \cup {targets[c]}
                                                  ELSE cases[c].approvals
<1>6. PICK next \in [chosen -> States] :
         /\ \A c \in chosen : <<cases[c].state, decision, next[c]>> \in Transitions
         /\ cases' = [c \in Candidates |->
                          IF c \notin chosen THEN cases[c]
                          ELSE [cases[c] EXCEPT !.state = next[c], !.approvals = Approving(c)]]
  <2>1. [chosen -> States] = [DOMAIN targets -> {"in_review", "approved", "rejected",
                                                 "needs_revision", "draft"}]
    BY <1>4 DEF States
  <2>2. PICK next \in [chosen -> States] :
           /\ \A c \in DOMAIN targets : <<cases[c].state, decision, next[c]>> \in Transitions
           /\ cases' = [c \in Candidates |->
                            IF c \notin DOMAIN targets THEN cases[c]
                            ELSE [cases[c] EXCEPT
                                     !.state = next[c],
                                     !.approvals = IF decision = "approve" THEN @ \cup {targets[c]}
                                                                           ELSE @]]
    BY <1>3, <2>1, Zenon DEF Review
  <2> QED BY <1>4, <2>2
<1>7. ASSUME NEW c \in Candidates
      PROVE  /\ cases'[c] \in [revisions : Seq(Contents), state : States,
                               tombstoned : BOOLEAN, approvals : SUBSET Nat]
             /\ cases'[c].revisions = cases[c].revisions
             /\ cases'[c].tombstoned = cases[c].tombstoned
             /\ c \notin chosen => cases'[c] = cases[c]
             /\ c \in chosen => /\ cases'[c].state = next[c]
                                /\ cases'[c].approvals = Approving(c)
  BY <1>4, <1>6 DEF Inv, CaseTypes
<1>8. CaseTypes'
  BY <1>6, <1>7 DEF CaseTypes
<1>9. ASSUME NEW q \in Runs
      PROVE  Proposed(q, proposals'[q], cases')
  <2>1. Proposed(q, proposals[q], cases')
    <3>1. Proposed(q, proposals[q], cases) /\ CasesOf(q) \subseteq Candidates
      BY DEF Inv, CasesOf
    <3> QED BY <1>7, <3>1, StillProposes
  <2>2. proposals'[q] = IF q = r THEN Reconciled(proposals[q], cases') ELSE proposals[q]
    BY <1>5 DEF Inv
  <2> QED BY <2>1, <2>2, ReconcileProposes
<1>10. ASSUME NEW c \in chosen
      PROVE  /\ targets[c] \in DOMAIN cases[c].revisions
             /\ next[c] = "approved" => decision = "approve"
  <2>1. cases[c].revisions \in Seq(Contents)
    BY <1>4 DEF Inv, CaseTypes
  <2>2. targets[c] \in DOMAIN cases[c].revisions
    BY <1>5, <2>1, LenProperties
  <2>3. <<cases[c].state, decision, next[c]>> \in Transitions
    BY <1>6
  <2> QED BY <2>2, <2>3 DEF Transitions
<1>11. ASSUME NEW c \in Candidates
       PROVE  Approved(c, cases'[c])
  <2>1. Approved(c, cases[c])
    BY DEF Inv
  <2>2. CASE c \notin chosen
    BY <1>7, <2>1, <2>2
  <2>3. CASE c \in chosen
    <3>1. /\ targets[c] \in DOMAIN cases[c].revisions /\ Len(cases[c].revisions) = targets[c]
          /\ next[c] = "approved" => decision = "approve"
      BY <1>5, <1>10, <2>3
    <3>2. /\ cases'[c].revisions = cases[c].revisions /\ cases'[c].state = next[c]
          /\ cases'[c].approvals = Approving(c)
      BY <1>7, <2>3
    <3>3. cases[c].approvals \subseteq DOMAIN cases[c].revisions
      BY <2>1 DEF Approved
    <3>4. /\ cases'[c].approvals \subseteq DOMAIN cases[c].revisions
          /\ cases'[c].state = "approved" => Len(cases[c].revisions) \in cases'[c].approvals
      BY <3>1, <3>2, <3>3
    <3> QED BY <3>2, <3>4 DEF Approved
  <2> QED BY <2>2, <2>3
<1>12. DOMAIN proposals' = Runs /\ DOMAIN audits' = Runs /\ AuditsCover'
  BY <1>5 DEF Inv, AuditsCover
<1>13. \A c \in Candidates : \A n \in cases[c].approvals :
          n \in cases'[c].approvals /\ cases'[c].revisions[n] = cases[c].revisions[n]
  BY <1>7
<1> QED BY <1>5, <1>8, <1>9, <1>11, <1>12, <1>13, CandidateStep

\* The audited cases are the frozen ones and the creations.
LEMMA AuditedCases ==
    ASSUME VersionTypes, NEW r \in Runs
    PROVE  DOMAIN EffectiveCases(r) =
              BaseCases \cup {p.candidate : p \in {q \in proposals[r] :
                                 q.operation = "create" /\ q.candidate # None /\ Live(q.candidate)}}
BY DEF EffectiveCases, Frozen, VersionTypes, BaselineVersion

LEMMA ReAuditInv ==
    ASSUME Inv, NEW r \in Runs, ReAudit(r)
    PROVE  Inv'
<1>1. /\ audits' = [audits EXCEPT ![r] = EffectiveCases(r)]
      /\ UNCHANGED OfCandidates /\ cases' = cases /\ proposals' = proposals
  BY DEF ReAudit
<1>2. BaseCases \subseteq DOMAIN EffectiveCases(r)
  BY AuditedCases DEF Inv
<1>3. DOMAIN audits' = Runs /\ AuditsCover'
  BY <1>1, <1>2 DEF Inv, AuditsCover
<1>4. CaseTypes'
  BY <1>1 DEF Inv, CaseTypes
<1> QED BY <1>1, <1>3, <1>4, CandidateStep DEF Inv

-----------------------------------------------------------------------------
\* The operations on library cases, suites and handoffs.

LEMMA CreateLibraryCaseInv ==
    ASSUME Inv, NEW k \in LibraryIds, NEW content \in Contents, CreateLibraryCase(k, content)
    PROVE  Inv' /\ HistoryIsKept
<1>1. /\ k \in Handwritten /\ library[k] = Absent /\ UNCHANGED OfLibrary
      /\ library' = [library EXCEPT ![k] = [status |-> "active", revisions |-> <<content>>]]
  BY DEF CreateLibraryCase
<1>2. LibraryTypes'
  BY <1>1 DEF Inv, LibraryTypes
<1>3. \A j \in LibraryIds : \A n \in DOMAIN library[j].revisions :
         /\ n \in DOMAIN library'[j].revisions
         /\ library'[j].revisions[n] = library[j].revisions[n]
  BY <1>1 DEF Inv, LibraryTypes, Absent
<1>4. \A j \in LibraryIds : library[j] = Absent /\ j \notin Handwritten => library'[j] = Absent
  BY <1>1 DEF Inv, LibraryTypes
<1> QED BY <1>1, <1>2, <1>3, <1>4, LibraryStep

\* Both further revisions of a library case, of whatever status.
LEMMA RevisedInv ==
    ASSUME Inv, NEW k \in LibraryIds, library[k] # Absent, UNCHANGED OfLibrary,
           NEW content \in Contents, NEW status \in {"absent", "active", "deprecated"},
           library' = [library EXCEPT ![k].revisions = Append(@, content), ![k].status = status]
    PROVE  Inv' /\ HistoryIsKept
<1> DEFINE old == library[k].revisions
           s == Append(old, content)
<1>1. /\ s \in Seq(Contents)
      /\ \A i \in DOMAIN old : i \in DOMAIN s /\ s[i] = old[i]
  <2>1. old \in Seq(Contents)
    BY DEF Inv, LibraryTypes
  <2> HIDE DEF old
  <2> QED BY <2>1, Extended
<1>2. library' = [library EXCEPT ![k].revisions = s, ![k].status = status]
  OBVIOUS
<1> HIDE DEF s
<1>3. LibraryTypes'
  BY <1>1, <1>2 DEF Inv, LibraryTypes
<1>4. \A j \in LibraryIds : \A n \in DOMAIN library[j].revisions :
         /\ n \in DOMAIN library'[j].revisions
         /\ library'[j].revisions[n] = library[j].revisions[n]
  BY <1>1, <1>2 DEF Inv, LibraryTypes
<1>5. \A j \in LibraryIds : library[j] = Absent /\ j \notin Handwritten => library'[j] = Absent
  BY <1>2 DEF Inv, LibraryTypes
<1> QED BY <1>3, <1>4, <1>5, LibraryStep

LEMMA EditLibraryCaseInv ==
    ASSUME Inv, NEW k \in LibraryIds, NEW content \in Contents, NEW seen,
           EditLibraryCase(k, seen, content)
    PROVE  Inv' /\ HistoryIsKept
<1>1. /\ library[k].status = "active" /\ UNCHANGED OfLibrary
      /\ library' = [library EXCEPT ![k].revisions = Append(@, content)]
  BY DEF EditLibraryCase
<1>2. library' = [library EXCEPT ![k].revisions = Append(@, content), ![k].status = "active"]
  BY <1>1 DEF Inv, LibraryTypes
<1>3. library[k] # Absent
  BY <1>1 DEF Absent
<1> QED BY <1>1, <1>2, <1>3, RevisedInv

LEMMA DeprecateLibraryCaseInv ==
    ASSUME Inv, NEW k \in LibraryIds, NEW seen \in DOMAIN library[k].revisions,
           DeprecateLibraryCase(k, seen)
    PROVE  Inv' /\ HistoryIsKept
<1> DEFINE content == Last(library[k].revisions)
<1>1. /\ library[k] # Absent /\ UNCHANGED OfLibrary
      /\ library' = [library EXCEPT ![k].revisions = Append(@, content), ![k].status = "deprecated"]
  BY DEF DeprecateLibraryCase
<1>2. content \in Contents
  <2>1. library[k].revisions \in Seq(Contents)
    BY DEF Inv, LibraryTypes
  <2>2. Len(library[k].revisions) \in DOMAIN library[k].revisions
    BY <2>1, LenProperties
  <2> QED BY <2>1, <2>2, ElementOfSeq, LenProperties DEF Last
<1> HIDE DEF content
<1> QED BY <1>1, <1>2, RevisedInv

LEMMA HandOffInv ==
    ASSUME Inv, NEW v \in DOMAIN versions,
           \/ HandOffAll(v)
           \/ \E s \in DOMAIN suites : \E impacted \in SUBSET Frozen(v) : HandOffSuite(v, s, impacted)
    PROVE  Inv'
<1>1. ASSUME NEW m, UNCHANGED <<OfSuites, drafts, suites>>,
             DOMAIN m \subseteq Frozen(v), \A k \in DOMAIN m : m[k] = versions[v].members[k],
             NEW s, handoffs' = handoffs \cup {[version |-> v, suite |-> s, members |-> m]}
      PROVE  Inv'
  <2>1. versions' = versions /\ drafts' = drafts /\ suites' = suites /\ UNCHANGED OfSuites
    BY <1>1 DEF OfSuites
  <2> DEFINE h == [version |-> v, suite |-> s, members |-> m]
  <2>2. h.version = v /\ h.members = m /\ {"version", "members"} \subseteq DOMAIN h
    OBVIOUS
  <2>3. handoffs' = handoffs \cup {h}
    BY <1>1
  <2> HIDE DEF h
  <2>4. Selects(h)
    BY <1>1, <2>2 DEF Selects
  <2>5. Selected'
    BY <2>1, <2>3, <2>4 DEF Inv, Selected, Selects, Frozen
  <2>6. IsSequence(suites)' /\ DOMAIN drafts' = Keys
    BY <2>1 DEF Inv, VersionTypes
  <2> QED BY <2>1, <2>5, <2>6, SelectionStep
<1>2. CASE HandOffAll(v)
  <2>1. versions[v].members = versions[v].members /\ DOMAIN versions[v].members = Frozen(v)
    BY DEF Frozen
  <2> QED BY <1>1, <1>2, <2>1 DEF HandOffAll
<1>3. CASE \E s \in DOMAIN suites : \E impacted \in SUBSET Frozen(v) : HandOffSuite(v, s, impacted)
  <2>1. PICK s \in DOMAIN suites, impacted \in SUBSET Frozen(v) : HandOffSuite(v, s, impacted)
    BY <1>3
  <2> DEFINE m == [k \in DOMAIN suites[s].members \cup impacted |-> versions[v].members[k]]
  <2>2. DOMAIN m \subseteq Frozen(v) /\ \A k \in DOMAIN m : m[k] = versions[v].members[k]
    BY <2>1 DEF HandOffSuite, Selectable
  <2>3. UNCHANGED <<OfSuites, drafts, suites>>
        /\ handoffs' = handoffs \cup {[version |-> v, suite |-> s, members |-> m]}
    BY <2>1 DEF HandOffSuite
  <2> QED BY <1>1, <2>2, <2>3
<1> QED BY <1>2, <1>3

\* A draft that is written anew selects members of its version.
LEMMA DraftedInv ==
    ASSUME Inv, NEW key \in Keys, NEW v \in DOMAIN versions, NEW chosen \in SUBSET Frozen(v),
           NEW draft, {"version", "members"} \subseteq DOMAIN draft,
           draft.version = v, draft.members = SuiteMembers(v, chosen),
           drafts' = [drafts EXCEPT ![key] = draft], UNCHANGED <<OfSuites, suites, handoffs>>
    PROVE  Inv'
<1>1. versions' = versions /\ handoffs' = handoffs /\ suites' = suites /\ UNCHANGED OfSuites
  BY DEF OfSuites
<1>2. Selects(draft)
  BY DEF Selects, SuiteMembers
<1>3. Selected'
  BY <1>1, <1>2 DEF Inv, Selected, Selects, Frozen
<1>4. IsSequence(suites)' /\ DOMAIN drafts' = Keys
  BY <1>1 DEF Inv, VersionTypes
<1> QED BY <1>1, <1>3, <1>4, SelectionStep

LEMMA SuiteDraftInv ==
    ASSUME Inv, NEW key \in Keys, NEW v \in DOMAIN versions, NEW chosen \in SUBSET Frozen(v),
           \/ CreateSuiteDraft(key, v, chosen)
           \/ \E confirmed \in BOOLEAN : UpdateSuiteDraft(key, v, chosen, confirmed)
    PROVE  Inv'
<1>1. CASE CreateSuiteDraft(key, v, chosen)
  <2> DEFINE draft == [version |-> v, members |-> SuiteMembers(v, chosen), status |-> "draft"]
  <2>1. /\ draft.version = v /\ draft.members = SuiteMembers(v, chosen)
        /\ {"version", "members"} \subseteq DOMAIN draft
    OBVIOUS
  <2>2. drafts' = [drafts EXCEPT ![key] = draft] /\ UNCHANGED <<OfSuites, suites, handoffs>>
    BY <1>1 DEF CreateSuiteDraft
  <2> HIDE DEF draft
  <2> QED BY <2>1, <2>2, DraftedInv
<1>2. CASE \E confirmed \in BOOLEAN : UpdateSuiteDraft(key, v, chosen, confirmed)
  <2> DEFINE draft == [drafts[key] EXCEPT !.version = v, !.members = SuiteMembers(v, chosen)]
  <2>1. drafts' = [drafts EXCEPT ![key] = draft] /\ UNCHANGED <<OfSuites, suites, handoffs>>
        /\ drafts[key] # None
    BY <1>2 DEF UpdateSuiteDraft, UpdatedDraft, Inv
  <2>2. {"version", "members"} \subseteq DOMAIN drafts[key]
    BY <2>1 DEF Inv, Selected, Selects
  <2>3. /\ draft.version = v /\ draft.members = SuiteMembers(v, chosen)
        /\ {"version", "members"} \subseteq DOMAIN draft
    BY <2>2
  <2> HIDE DEF draft
  <2> QED BY <2>1, <2>3, DraftedInv
<1> QED BY <1>1, <1>2

LEMMA PublishSuiteDraftInv ==
    ASSUME Inv, NEW key \in Keys, PublishSuiteDraft(key)
    PROVE  Inv'
<1> DEFINE suite == [key |-> key, version |-> drafts[key].version,
                     members |-> drafts[key].members, status |-> "active"]
           draft == [drafts[key] EXCEPT !.status = "published"]
<1>1. /\ drafts[key] # None /\ suites' = Append(suites, suite) /\ UNCHANGED OfSuites
      /\ drafts' = [drafts EXCEPT ![key] = draft]
      /\ versions' = versions /\ handoffs' = handoffs
  BY DEF PublishSuiteDraft, OfSuites
<1>2. Selects(drafts[key])
  BY <1>1 DEF Inv, Selected
<1>3. Selects(suite)
  BY <1>2 DEF Selects, Frozen
<1>4. draft.version = drafts[key].version /\ draft.members = drafts[key].members
      /\ {"version", "members"} \subseteq DOMAIN draft
  BY <1>2 DEF Selects
<1>5. Selects(draft)
  <2> HIDE DEF draft
  <2> QED BY <1>2, <1>4 DEF Selects, Frozen
<1> HIDE DEF suite, draft
<1>6. IsSequence(suites)' /\ \A s \in DOMAIN suites' : \/ s \in DOMAIN suites /\ suites'[s] = suites[s]
                                                      \/ suites'[s] = suite
  <2>1. IsSequence(suites)
    BY DEF Inv, VersionTypes
  <2>2. /\ IsSequence(suites') /\ Len(suites) \in Nat
        /\ DOMAIN suites = 1 .. Len(suites) /\ DOMAIN suites' = 1 .. Len(suites) + 1
        /\ \A i \in 1 .. Len(suites) : suites'[i] = suites[i]
        /\ suites'[Len(suites) + 1] = suite
    BY <1>1, <2>1, SequenceExtended
  <2> QED BY <2>2
<1>7. Selected'
  BY <1>1, <1>3, <1>5, <1>6 DEF Inv, Selected, Selects, Frozen
<1>8. DOMAIN drafts' = Keys
  BY <1>1 DEF Inv
<1> QED BY <1>1, <1>6, <1>7, <1>8, SelectionStep

LEMMA DeprecateSuiteInv ==
    ASSUME Inv, NEW n \in DOMAIN suites, DeprecateSuite(n)
    PROVE  Inv'
<1> DEFINE suite == [suites[n] EXCEPT !.status = "deprecated"]
<1>1. /\ suites' = [suites EXCEPT ![n] = suite] /\ UNCHANGED OfSuites
      /\ drafts' = drafts /\ versions' = versions /\ handoffs' = handoffs
  BY DEF DeprecateSuite, OfSuites
<1>2. Selects(suites[n])
  BY DEF Inv, Selected
<1>3. suite.version = suites[n].version /\ suite.members = suites[n].members
      /\ {"version", "members"} \subseteq DOMAIN suite
  BY <1>2 DEF Selects
<1> HIDE DEF suite
<1>4. Selects(suite)
  BY <1>2, <1>3 DEF Selects, Frozen
<1>5. Selected'
  BY <1>1, <1>4 DEF Inv, Selected, Selects, Frozen
<1>6. IsSequence(suites')
  <2> DEFINE S == ToSet(suites) \cup {suite}
             t == suites'
  <2>1. suites \in Seq(S) /\ suite \in S
    BY SeqMonotonic DEF Inv, VersionTypes, IsSequence
  <2> HIDE DEF S
  <2>2. t \in Seq(S)
    BY <1>1, <2>1, ExceptSeq
  <2> HIDE DEF t
  <2>3. t \in Seq(ToSet(t))
    BY <2>2, LenProperties, IsASeq DEF ToSet
  <2> QED BY <2>3 DEF IsSequence, t
<1> QED BY <1>1, <1>5, <1>6, SelectionStep DEF Inv

-----------------------------------------------------------------------------
\* The initial states: the candidates as they are designed, the proposals of the runs and
\* the baseline.

LEMMA InitInv ==
    ASSUME Init
    PROVE  Inv
<1>0. /\ None \notin Candidates /\ None \notin BaseCases /\ BaseCases \subseteq LibraryIds
      /\ Candidates \subseteq LibraryIds /\ BaseContent \in [BaseCases -> Contents]
      /\ RunOf \in [Candidates -> Runs] /\ SourceOf \in [Candidates -> BaseCases \cup {None}]
      /\ Designed \subseteq Candidates /\ BaseCases \cap Candidates = {}
  BY ConstantsAssumption DEF LibraryIds, Candidates
<1>1. versions = <<BaselineVersion>>
  BY DEF Init, BaselineVersion
<1>2. VersionTypes
  <2>1. IsSequence(versions) /\ versions # <<>> /\ DOMAIN versions = {1}
        /\ versions[1] = BaselineVersion
    BY <1>1 DEF IsSequence, ToSet
  <2>2. IsSequence(suites)
    BY DEF Init, IsSequence, ToSet
  <2>3. IsSelection(BaselineVersion.members) /\ BaselineVersion.run = None
    BY <1>0 DEF IsSelection, BaselineVersion
  <2> QED BY <2>1, <2>2, <2>3 DEF VersionTypes, Baseline
<1>3. LibraryTypes
  BY <1>0 DEF Init, LibraryTypes, Absent
<1>4. ASSUME NEW c \in Candidates
      PROVE  /\ cases[c] \in [revisions : Seq(Contents), state : States,
                              tombstoned : BOOLEAN, approvals : SUBSET Nat]
             /\ Approved(c, cases[c]) /\ ~cases[c].tombstoned
             /\ c \in Designed => cases[c].revisions # <<>>
             /\ c \in Added => cases[c].revisions = <<>>
  <2>1. cases[c] \in Materialized(c)
    BY DEF Init
  <2>2. CASE c \in Added
    <3>1. cases[c] = NoCase /\ c \notin Designed
      BY <2>1, <2>2, ConstantsAssumption DEF Materialized
    <3>2. /\ cases[c].revisions = <<>> /\ cases[c].state = "draft"
          /\ cases[c].tombstoned = FALSE /\ cases[c].approvals = {}
          /\ cases[c] \in [revisions : Seq(Contents), state : States,
                              tombstoned : BOOLEAN, approvals : SUBSET Nat]
      BY <3>1 DEF NoCase, States
    <3> QED BY <2>2, <3>1, <3>2 DEF Approved
  <2>3. CASE c \notin Added
    <3>1. PICK k \in Contents, state \in {"in_review", "approved"} :
             /\ cases[c] = NewCase(k, state)
             /\ state = "approved" => SourceOf[c] # None /\ k.sense = BaseContent[SourceOf[c]].sense
      BY <2>1, <2>3 DEF Materialized
    <3>2. Last(<<k>>) = k /\ <<k>> # <<>> /\ <<k>> \in Seq(Contents)
      BY DEF Last
    <3>3. /\ cases[c].revisions = <<k>> /\ cases[c].state = state
          /\ cases[c].tombstoned = FALSE /\ cases[c].approvals = {}
          /\ cases[c] \in [revisions : Seq(Contents), state : States,
                              tombstoned : BOOLEAN, approvals : SUBSET Nat]
      BY <3>1, <3>2 DEF NewCase, States
    <3> QED BY <2>3, <3>1, <3>2, <3>3 DEF Approved
  <2> QED BY <2>2, <2>3
<1>5. CaseTypes
  <2>1. cases \in [Candidates -> UNION {Materialized(c) : c \in Candidates}]
    BY DEF Init
  <2> QED BY <1>4, <2>1 DEF CaseTypes
<1>6. ASSUME NEW r \in Runs
      PROVE  Proposed(r, proposals[r], cases)
  <2> DEFINE mine == CasesOf(r) \cap Designed
             matched == {NewProposal(SourceOf[c], c, Current(c)) : c \in mine}
             kept == {NewProposal(b, None, versions[Baseline].content[b]) :
                         b \in BaseCases \ {SourceOf[c] : c \in mine}}
             ps == matched \cup kept
  <2>1. proposals[r] = Reconciled(ps, cases)
    BY DEF Init
  <2>2. ASSUME NEW c \in mine
        PROVE  LET p == NewProposal(SourceOf[c], c, Current(c)) IN
               /\ p \in Proposal /\ p.source = SourceOf[c] /\ p.candidate = c
               /\ p.content = Last(cases[c].revisions)
               /\ p.operation = IF p.source = None THEN "create"
                                   ELSE IF p.content.sense = BaseContent[p.source].sense
                                   THEN "reuse" ELSE "update"
    <3>1. c \in Candidates /\ SourceOf[c] \in BaseCases \cup {None}
      BY <1>0 DEF CasesOf
    <3>2. cases[c].revisions \in Seq(Contents) /\ cases[c].revisions # <<>>
      BY <1>4, <3>1
    <3>3. Current(c) \in Contents
      BY <3>2, LenProperties, ElementOfSeq DEF Current, Last
    <3> QED BY <1>2, <3>1, <3>3, OperationOf DEF NewProposal, Proposal, Current
  <2>3. ASSUME NEW b \in BaseCases
        PROVE  LET p == NewProposal(b, None, versions[Baseline].content[b]) IN
               /\ p \in Proposal /\ p.source = b /\ p.candidate = None
               /\ p.content = BaseContent[b] /\ p.operation = "reuse"
    <3>1. versions[Baseline].content[b] = BaseContent[b] /\ BaseContent[b] \in Contents
      BY <1>0, <1>2 DEF VersionTypes, BaselineVersion
    <3>2. Operation(b, BaseContent[b]) = "reuse"
      BY <1>0, <1>2, OperationOf
    <3> QED BY <3>1, <3>2 DEF NewProposal, Proposal
  <2>4. \A c \in mine : c \in Candidates /\ c \in Designed /\ RunOf[c] = r
    BY DEF CasesOf
  <2>5. /\ \A p \in ps : \/ \E c \in mine : p = NewProposal(SourceOf[c], c, Current(c))
                         \/ \E b \in BaseCases \ {SourceOf[c] : c \in mine} :
                               p = NewProposal(b, None, versions[Baseline].content[b])
        /\ \A c \in mine : NewProposal(SourceOf[c], c, Current(c)) \in ps
        /\ \A b \in BaseCases \ {SourceOf[c] : c \in mine} :
               NewProposal(b, None, versions[Baseline].content[b]) \in ps
    OBVIOUS
  <2> HIDE DEF ps
  <2>6. ASSUME NEW p \in ps
        PROVE  /\ p \in Proposal
               /\ p.operation = IF p.source = None THEN "create"
                                   ELSE IF p.content.sense = BaseContent[p.source].sense
                                   THEN "reuse" ELSE "update"
               /\ IF p.candidate = None
                  THEN /\ p.operation = "reuse" /\ p.source \in BaseCases
                       /\ \A c \in mine : SourceOf[c] # p.source
                       /\ p = NewProposal(p.source, None, versions[Baseline].content[p.source])
                  ELSE /\ p.candidate \in mine /\ p.source = SourceOf[p.candidate]
                       /\ p.content = Last(cases[p.candidate].revisions)
                       /\ p = NewProposal(p.source, p.candidate, Current(p.candidate))
    <3>1. CASE \E c \in mine : p = NewProposal(SourceOf[c], c, Current(c))
      <4>1. PICK c \in mine : p = NewProposal(SourceOf[c], c, Current(c))
        BY <3>1
      <4>2. c # None
        BY <1>0, <2>4
      <4> HIDE DEF mine
      <4> QED BY <2>2, <4>1, <4>2
    <3>2. CASE \E b \in BaseCases \ {SourceOf[c] : c \in mine} :
                  p = NewProposal(b, None, versions[Baseline].content[b])
      <4>1. PICK b \in BaseCases \ {SourceOf[c] : c \in mine} :
                  p = NewProposal(b, None, versions[Baseline].content[b])
        BY <3>2
      <4>2. /\ p \in Proposal /\ p.source = b /\ p.candidate = None
            /\ p.content = BaseContent[b] /\ p.operation = "reuse"
        BY <2>3, <4>1
      <4> QED BY <1>0, <4>1, <4>2
    <3> QED BY <2>5, <3>1, <3>2
  <2>7. \A b \in BaseCases : \E p \in ps : p.source = b
    <3> TAKE b \in BaseCases
    <3>1. CASE b \in {SourceOf[c] : c \in mine}
      BY <2>2, <2>5, <3>1
    <3>2. CASE b \notin {SourceOf[c] : c \in mine}
      BY <2>3, <2>5, <3>2
    <3> QED BY <3>1, <3>2
  <2>8. \A p, q \in ps : p.source = q.source /\ p.source # None => p = q
    <3> SUFFICES ASSUME NEW p \in ps, NEW q \in ps, p.source = q.source, p.source # None
                 PROVE  p = q
      OBVIOUS
    <3>1. CASE p.candidate = None \/ q.candidate = None
      BY <2>6, <3>1
    <3>2. CASE p.candidate # None /\ q.candidate # None
      <4>1. p.candidate = q.candidate
        BY <2>4, <2>6, <3>2, ConstantsAssumption
      <4> QED BY <2>6, <3>2, <4>1
    <3> QED BY <3>1, <3>2
  <2>9. \A p, q \in ps : p.candidate = q.candidate /\ p.candidate # None => p = q
    BY <2>6
  <2>10. \A p \in ps : p.candidate # None =>
            LET c == p.candidate IN
            /\ RunOf[c] = r /\ cases[c].revisions # <<>>
            /\ p.content = Last(cases[c].revisions)
            /\ ~cases[c].tombstoned => p.source = SourceOf[c]
            /\ cases[c].tombstoned => p.source = None /\ p.decision = "pending"
    BY <1>4, <2>4, <2>6
  <2>11. \A c \in CasesOf(r) : cases[c].revisions # <<>> /\ ~cases[c].tombstoned =>
            \E p \in ps : p.candidate = c
    BY <1>4, <2>2, <2>5 DEF CasesOf, Candidates
  <2>12. Proposed(r, ps, cases)
    BY <2>6, <2>7, <2>8, <2>9, <2>10, <2>11 DEF Proposed
  <2> QED BY <2>1, <2>12, ReconcileProposes
<1>7. Kept
  BY <1>0, <1>1 DEF Init, Kept, Frozen, Published, BaselineVersion, Absent
<1>8. Selected
  BY DEF Init, Selected
<1>9. AuditsCover /\ DOMAIN audits = Runs /\ DOMAIN proposals = Runs /\ DOMAIN drafts = Keys
  BY <1>2, AuditedCases DEF Init, AuditsCover
<1>10. PublishedWasReviewed /\ PublishedWasAudited
  BY <1>1 DEF PublishedWasReviewed, PublishedWasAudited, Frozen,
              BaselineVersion, Baseline
<1> QED BY <1>2, <1>3, <1>4, <1>5, <1>6, <1>7, <1>8, <1>9, <1>10 DEF Inv

-----------------------------------------------------------------------------
\* The publication, from the accepted proposals to the members of the new version.

Settled(r) == Reconciled(proposals[r], cases)
Created(r) == {p.candidate : p \in {q \in Settled(r) : q.operation = "create"}}
Member(r) == [k \in Frozen(Baseline) \cup Created(r) |-> Applied(r, Settled(r), k)]
NewVersion(r) == [run     |-> r,
                  members |-> [k \in DOMAIN Member(r) |-> Member(r)[k].revision],
                  content |-> [k \in DOMAIN Member(r) |-> Member(r)[k].content],
                  audited |-> [k \in DOMAIN audits[r] |-> audits[r][k].content]]

\* What the gates leave of the proposals: each is of a live, approved candidate at its
\* present content, or keeps the frozen case.
LEMMA SettledProposals ==
    ASSUME Inv, NEW r \in Runs, Publish(r), NEW p \in Settled(r)
    PROVE  /\ Proposed(r, Settled(r), cases) /\ p \in Proposal
           /\ p.operation = "create" => p.source = None /\ p.candidate # None
           /\ p.operation # "create" => p.source \in BaseCases
           /\ p.operation = "reuse" => p.content.sense = BaseContent[p.source].sense
           /\ p.operation = "update" => /\ p.candidate # None
                                        /\ p.content.sense # BaseContent[p.source].sense
           /\ p.candidate # None =>
                 /\ p.candidate \in CasesOf(r) /\ Live(p.candidate)
                 /\ p.source = SourceOf[p.candidate] /\ p.content = Current(p.candidate)
                 /\ cases[p.candidate].state = "approved"
<1>1. Proposed(r, proposals[r], cases)
  BY DEF Inv
<1>2. Proposed(r, Settled(r), cases)
  BY <1>1, ReconcileProposes DEF Settled
<1>3. /\ \A q \in Settled(r) : q.decision = "accepted"
      /\ Reviewed(r)
  BY DEF Publish, Settled
<1>4. p \in Proposal
  BY <1>2 DEF Proposed
<1>5. /\ p.operation = IF p.source = None THEN "create"
                       ELSE IF p.content.sense = BaseContent[p.source].sense
                       THEN "reuse" ELSE "update"
      /\ p.candidate = None => p.operation = "reuse"
  BY <1>2 DEF Proposed
<1>6. ASSUME p.candidate # None
      PROVE  /\ p.candidate \in CasesOf(r) /\ Live(p.candidate)
             /\ p.source = SourceOf[p.candidate] /\ p.content = Current(p.candidate)
             /\ cases[p.candidate].state = "approved"
  <2>1. p.candidate \in CasesOf(r) /\ cases[p.candidate].tombstoned \in BOOLEAN
    BY <1>2, <1>4, <1>6 DEF Proposed, Proposal, CasesOf, Inv, CaseTypes
  <2>2. ~cases[p.candidate].tombstoned
    BY <1>2, <1>3, <1>6, <2>1 DEF Proposed
  <2>3. Live(p.candidate) /\ p.source = SourceOf[p.candidate] /\ p.content = Current(p.candidate)
    BY <1>2, <1>6, <2>2 DEF Proposed, Live, Exists, Current
  <2> QED BY <1>3, <2>1, <2>3 DEF Reviewed
<1>7. p.source \in BaseCases \cup {None}
  BY <1>4 DEF Proposal
<1> QED BY <1>2, <1>4, <1>5, <1>6, <1>7

\* Reconciling changes decisions only.
LEMMA SameProposals ==
    ASSUME Inv, NEW r \in Runs
    PROVE  /\ \A p \in proposals[r] : \E q \in Settled(r) :
                 /\ q.source = p.source /\ q.candidate = p.candidate
                 /\ q.content = p.content /\ q.operation = p.operation
           /\ \A q \in Settled(r) : \E p \in proposals[r] :
                 /\ q.source = p.source /\ q.candidate = p.candidate
                 /\ q.content = p.content /\ q.operation = p.operation
<1> DEFINE Fits(p) == /\ p.decision = "pending"
                      /\ \/ p.operation = "reuse"
                         \/ /\ p.candidate # None
                            /\ ~cases[p.candidate].tombstoned
                            /\ cases[p.candidate].state = "approved"
           Settle(p) == IF Fits(p) THEN [p EXCEPT !.decision = "accepted"] ELSE p
<1>1. Settled(r) = {Settle(p) : p \in proposals[r]} /\ proposals[r] \subseteq Proposal
  BY DEF Settled, Reconciled, Inv, Proposed
<1>2. \A p \in proposals[r] :
         /\ Settle(p).source = p.source /\ Settle(p).candidate = p.candidate
         /\ Settle(p).content = p.content /\ Settle(p).operation = p.operation
  BY <1>1 DEF Proposal
<1> HIDE DEF Settle
<1> QED BY <1>1, <1>2

\* The frozen revisions still are what they were, which is what BaselineIntact checks again.
LEMMA IntactBaseline ==
    ASSUME Inv, NEW k \in BaseCases
    PROVE  /\ Frozen(Baseline) = BaseCases
           /\ versions[Baseline].members[k] = 1 /\ versions[Baseline].content[k] = BaseContent[k]
           /\ library[k].revisions[1] = BaseContent[k] /\ 1 \in DOMAIN library[k].revisions
<1>1. /\ Frozen(Baseline) = BaseCases /\ Baseline \in DOMAIN versions
      /\ versions[Baseline].members[k] = 1 /\ versions[Baseline].content[k] = BaseContent[k]
  <2>1. IsSequence(versions) /\ versions # <<>> /\ versions[Baseline] = BaselineVersion
    BY DEF Inv, VersionTypes
  <2>2. 1 \in DOMAIN versions
    BY <2>1, LenProperties, EmptySeq DEF IsSequence
  <2> QED BY <2>1, <2>2 DEF BaselineVersion, Frozen, Baseline
<1>2. /\ library[k].revisions[1] = BaseContent[k] /\ 1 \in DOMAIN library[k].revisions
  BY <1>1 DEF Inv, Kept
<1> QED BY <1>1, <1>2

\* What becomes of a frozen case.
LEMMA BaselineMember ==
    ASSUME Inv, NEW r \in Runs, Publish(r), NEW p \in Settled(r), p.source \in BaseCases
    PROVE  /\ p.source \in DOMAIN Member(r)
           /\ Member(r)[p.source] =
                 IF p.operation = "reuse"
                 THEN [revision |-> 1, content |-> BaseContent[p.source]]
                 ELSE [revision |-> Len(library[p.source].revisions) + 1,
                       content  |-> Current(p.candidate)]
<1> DEFINE k == p.source
           Fits(q) == IF k \in BaseCases THEN q.source = k
                                         ELSE q.candidate = k /\ q.operation = "create"
<1>1. /\ Proposed(r, Settled(r), cases) /\ p.operation \in {"reuse", "update"}
      /\ Frozen(Baseline) = BaseCases
      /\ versions[Baseline].members[k] = 1 /\ library[k].revisions[1] = BaseContent[k]
  BY SettledProposals, IntactBaseline, ConstantsAssumption DEF Proposal, LibraryIds
<1>2. \A q \in Settled(r) : Fits(q) <=> q = p
  BY <1>1, ConstantsAssumption DEF Proposed, LibraryIds
<1>3. (CHOOSE q \in Settled(r) : Fits(q)) = p
  BY <1>2
<1>4. Applied(r, Settled(r), k) =
         IF p.operation = "reuse"
         THEN [revision |-> 1, content |-> BaseContent[k]]
         ELSE [revision |-> Len(library[k].revisions) + 1, content |-> Current(p.candidate)]
  BY <1>1, <1>3 DEF Applied, NextRevision
<1> QED BY <1>1, <1>4 DEF Member

\* What becomes of a creation, which has no library case yet.
LEMMA CreatedMember ==
    ASSUME Inv, NEW r \in Runs, Publish(r), NEW p \in Settled(r), p.operation = "create"
    PROVE  /\ p.candidate \in DOMAIN Member(r) /\ p.candidate \notin BaseCases
           /\ Member(r)[p.candidate] = [revision |-> 1, content |-> Current(p.candidate)]
           /\ library[p.candidate] = Absent
<1> DEFINE k == p.candidate
           Fits(q) == IF k \in BaseCases THEN q.source = k
                                         ELSE q.candidate = k /\ q.operation = "create"
<1>1. /\ Proposed(r, Settled(r), cases) /\ k # None /\ k \in CasesOf(r)
  BY SettledProposals
<1>2. k \in Candidates /\ RunOf[k] = r /\ k \notin BaseCases
  BY <1>1, ConstantsAssumption DEF CasesOf
<1>3. \A q \in Settled(r) : Fits(q) <=> q = p
  BY <1>1, <1>2 DEF Proposed
<1>4. (CHOOSE q \in Settled(r) : Fits(q)) = p
  BY <1>3
<1>5. Applied(r, Settled(r), k) = [revision |-> 1, content |-> Current(k)]
  BY <1>4 DEF Applied
<1>6. k \in Created(r)
  BY DEF Created
<1>7. library[k] = Absent
  BY <1>2 DEF Inv, Kept, Publish
<1> QED BY <1>2, <1>5, <1>6, <1>7 DEF Member

\* Each member of the new version, as a revision of the library to be and as what a
\* reviewer approved.
LEMMA MemberOf ==
    ASSUME Inv, NEW r \in Runs, Publish(r), NEW k \in DOMAIN Member(r)
    PROVE  /\ Member(r)[k].content \in Contents /\ Member(r)[k].revision \in Nat \ {0}
           /\ k \in LibraryIds /\ k \in BaseCases \cup CasesOf(r)
           /\ \/ /\ k \in BaseCases /\ Member(r)[k].revision = 1
                 /\ Member(r)[k].content = library[k].revisions[1]
                 /\ \A p \in Settled(r) : /\ p.source = k => p.operation = "reuse"
                                          /\ p.operation = "create" => p.candidate # k
              \/ /\ Member(r)[k].revision = Len(library[k].revisions) + 1
                 /\ \E p \in Settled(r) :
                       /\ \/ p.operation = "update" /\ p.source = k
                          \/ p.operation = "create" /\ p.candidate = k
                       /\ p.candidate \in CasesOf(r) /\ k \in {p.candidate, SourceOf[p.candidate]}
                       /\ Member(r)[k].content = Current(p.candidate)
<1>1. DOMAIN Member(r) = BaseCases \cup Created(r)
  BY DEF Member, Frozen, Inv, VersionTypes, BaselineVersion
<1>2. BaseCases \subseteq LibraryIds /\ CasesOf(r) \subseteq LibraryIds
      /\ BaseCases \cap CasesOf(r) = {} /\ BaseContent \in [BaseCases -> Contents]
      /\ None \notin LibraryIds
  BY ConstantsAssumption DEF LibraryIds, CasesOf
<1>3. ASSUME NEW c \in CasesOf(r), Live(c)
      PROVE  Current(c) \in Contents
  <2>1. cases[c].revisions \in Seq(Contents) /\ cases[c].revisions # <<>>
    BY <1>3 DEF Inv, CaseTypes, CasesOf, Live, Exists
  <2> QED BY <2>1, LenProperties, EmptySeq, ElementOfSeq DEF Current, Last
<1>4. CASE k \in BaseCases
  <2>1. Proposed(r, Settled(r), cases)
    <3>1. Proposed(r, proposals[r], cases)
      BY DEF Inv
    <3> QED BY <3>1, ReconcileProposes DEF Settled
  <2>2. PICK p \in Settled(r) : p.source = k
    BY <1>4, <2>1 DEF Proposed
  <2>3. /\ p.operation \in {"reuse", "update"}
        /\ p.operation = "update" => p.candidate \in CasesOf(r) /\ Live(p.candidate)
                                     /\ SourceOf[p.candidate] = k
    <3>1. p.source # None /\ p \in Proposal
      BY <1>2, <1>4, <2>1, <2>2 DEF Proposed
    <3> QED BY <2>2, <3>1, SettledProposals DEF Proposal
  <2>4. Member(r)[k] = IF p.operation = "reuse"
                       THEN [revision |-> 1, content |-> BaseContent[k]]
                       ELSE [revision |-> Len(library[k].revisions) + 1,
                             content  |-> Current(p.candidate)]
    BY <1>4, <2>2, BaselineMember
  <2>5. library[k].revisions[1] = BaseContent[k] /\ Len(library[k].revisions) \in Nat
    BY <1>2, <1>4, IntactBaseline, LenProperties DEF Inv, LibraryTypes
  <2>6. CASE p.operation = "reuse"
    <3>1. \A q \in Settled(r) : q.source = k => q = p
      BY <1>2, <1>4, <2>1, <2>2 DEF Proposed
    <3>2. \A q \in Settled(r) : q.operation = "create" => q.candidate # k
      BY <1>4, CreatedMember
    <3> QED BY <1>2, <1>4, <2>4, <2>5, <2>6, <3>1, <3>2
  <2>7. CASE p.operation = "update"
    <3>1. Member(r)[k].content = Current(p.candidate) /\ Current(p.candidate) \in Contents
      BY <1>3, <2>3, <2>4, <2>7
    <3>2. Member(r)[k].revision = Len(library[k].revisions) + 1
      BY <2>4, <2>7
    <3> QED BY <1>2, <1>4, <2>2, <2>3, <2>5, <2>7, <3>1, <3>2
  <2> QED BY <2>3, <2>6, <2>7
<1>5. CASE k \notin BaseCases
  <2>1. PICK p \in Settled(r) : p.operation = "create" /\ p.candidate = k
    BY <1>1, <1>5 DEF Created
  <2>2. Member(r)[k] = [revision |-> 1, content |-> Current(k)] /\ library[k] = Absent
    BY <2>1, CreatedMember
  <2>3. k \in CasesOf(r) /\ Live(k)
    BY <2>1, SettledProposals
  <2>4. Len(library[k].revisions) = 0
    BY <2>2 DEF Absent
  <2> QED BY <1>2, <1>3, <2>1, <2>2, <2>3, <2>4
<1> QED BY <1>4, <1>5

\* WithRevision adds the next revision of a case and keeps the others.
LEMMA Revised ==
    ASSUME NEW case, case.revisions \in Seq(Contents), NEW content \in Contents
    PROVE  LET new == WithRevision(case, Len(case.revisions) + 1, content) IN
           /\ new.status = "active" /\ new.revisions \in Seq(Contents)
           /\ new \in [status : {"absent", "active", "deprecated"}, revisions : Seq(Contents)]
           /\ Len(case.revisions) + 1 \in DOMAIN new.revisions
           /\ new.revisions[Len(case.revisions) + 1] = content
           /\ \A n \in DOMAIN case.revisions :
                 n \in DOMAIN new.revisions /\ new.revisions[n] = case.revisions[n]
<1> DEFINE old == case.revisions
           m == Len(old) + 1
           s == [n \in DOMAIN old \cup {m} |-> IF n = m THEN content ELSE old[n]]
<1>1. DOMAIN old = 1 .. Len(old) /\ Len(old) \in Nat /\ \A n \in 1 .. Len(old) : old[n] \in Contents
  BY LenProperties, ElementOfSeq
<1>2. s \in [1 .. m -> Contents] /\ m \in Nat
  BY <1>1
<1>3. s \in Seq(Contents)
  <2> HIDE DEF s, m
  <2> QED BY <1>2, IsASeq
<1>4. /\ m \in DOMAIN s /\ s[m] = content
      /\ \A n \in DOMAIN old : n \in DOMAIN s /\ s[n] = old[n]
  BY <1>1
<1>5. WithRevision(case, m, content) = [status |-> "active", revisions |-> s]
  BY DEF WithRevision
<1> HIDE DEF s
<1> QED BY <1>3, <1>4, <1>5

\* What a publication makes of the library.
LEMMA PublishedLibrary ==
    ASSUME Inv, NEW r \in Runs, Publish(r)
    PROVE  /\ LibraryTypes'
           /\ \A k \in LibraryIds : \A n \in DOMAIN library[k].revisions :
                 /\ n \in DOMAIN library'[k].revisions
                 /\ library'[k].revisions[n] = library[k].revisions[n]
           /\ \A k \in DOMAIN Member(r) :
                 /\ Member(r)[k].revision \in DOMAIN library'[k].revisions
                 /\ library'[k].revisions[Member(r)[k].revision] = Member(r)[k].content
           /\ \A c \in Candidates : RunOf[c] # r => library'[c] = library[c]
<1> DEFINE ps == Settled(r)
           member == Member(r)
           changed == {k \in DOMAIN member : \E p \in ps :
                          \/ p.operation = "update" /\ p.source = k
                          \/ p.operation = "create" /\ p.candidate = k}
<1>1. library' = [k \in LibraryIds |->
                     IF k \in changed
                     THEN WithRevision(library[k], member[k].revision, member[k].content)
                     ELSE library[k]]
  BY DEF Publish, Settled, Member, Created
<1> HIDE DEF ps, member
<1>2. ASSUME NEW k \in DOMAIN member
      PROVE  /\ member[k].content \in Contents /\ k \in LibraryIds /\ k \in BaseCases \cup CasesOf(r)
             /\ IF k \in changed THEN member[k].revision = Len(library[k].revisions) + 1
                ELSE /\ member[k].revision = 1 /\ 1 \in DOMAIN library[k].revisions
                     /\ member[k].content = library[k].revisions[1]
  <2>1. /\ member[k].content \in Contents /\ k \in LibraryIds /\ k \in BaseCases \cup CasesOf(r)
        /\ \/ /\ k \in BaseCases /\ member[k].revision = 1
              /\ member[k].content = library[k].revisions[1]
              /\ \A p \in ps : /\ p.source = k => p.operation = "reuse"
                               /\ p.operation = "create" => p.candidate # k
           \/ /\ member[k].revision = Len(library[k].revisions) + 1
              /\ \E p \in ps : \/ p.operation = "update" /\ p.source = k
                               \/ p.operation = "create" /\ p.candidate = k
    BY <1>2, MemberOf DEF ps, member
  <2>2. k \in BaseCases => 1 \in DOMAIN library[k].revisions
    BY IntactBaseline
  <2> QED BY <2>1, <2>2
<1>3. ASSUME NEW k \in LibraryIds
      PROVE  /\ library[k].revisions \in Seq(Contents)
             /\ library[k] \in [status : {"absent", "active", "deprecated"}, revisions : Seq(Contents)]
  BY DEF Inv, LibraryTypes
<1>4. ASSUME NEW k \in LibraryIds
      PROVE  /\ library'[k] \in [status : {"absent", "active", "deprecated"}, revisions : Seq(Contents)]
             /\ \A n \in DOMAIN library[k].revisions :
                  /\ n \in DOMAIN library'[k].revisions
                  /\ library'[k].revisions[n] = library[k].revisions[n]
             /\ k \in DOMAIN member => /\ member[k].revision \in DOMAIN library'[k].revisions
                                       /\ library'[k].revisions[member[k].revision] = member[k].content
  <2>1. CASE k \in changed
    <3>1. library'[k] = WithRevision(library[k], Len(library[k].revisions) + 1, member[k].content)
          /\ member[k].content \in Contents /\ member[k].revision = Len(library[k].revisions) + 1
      BY <1>1, <1>2, <2>1
    <3>2. library[k].revisions \in Seq(Contents)
      BY <1>3
    <3> DEFINE new == WithRevision(library[k], Len(library[k].revisions) + 1, member[k].content)
    <3>3. /\ new \in [status : {"absent", "active", "deprecated"}, revisions : Seq(Contents)]
          /\ Len(library[k].revisions) + 1 \in DOMAIN new.revisions
          /\ new.revisions[Len(library[k].revisions) + 1] = member[k].content
          /\ \A n \in DOMAIN library[k].revisions :
                n \in DOMAIN new.revisions /\ new.revisions[n] = library[k].revisions[n]
      BY <3>1, <3>2, Revised
    <3> HIDE DEF new
    <3>4. library'[k] = new
      BY <3>1 DEF new
    <3> QED BY <3>1, <3>3, <3>4
  <2>2. CASE k \notin changed
    <3>1. library'[k] = library[k]
      BY <1>1, <2>2
    <3> QED BY <1>2, <1>3, <2>2, <3>1
  <2> QED BY <2>1, <2>2
<1>5. LibraryTypes'
  BY <1>1, <1>4 DEF LibraryTypes
<1>6. \A c \in Candidates : RunOf[c] # r => library'[c] = library[c]
  BY <1>1, <1>2, ConstantsAssumption DEF CasesOf, LibraryIds
<1> QED BY <1>2, <1>4, <1>5, <1>6 DEF member

\* The two computations of what is published, buildEffectiveCaseSet before the decisions are
\* settled and applyProposalToLibrary after, agree.
LEMMA AuditedIsPublished ==
    ASSUME Inv, NEW r \in Runs, Publish(r)
    PROVE  /\ DOMAIN EffectiveCases(r) = DOMAIN Member(r)
           /\ \A k \in DOMAIN Member(r) : EffectiveCases(r)[k].content = Member(r)[k].content
<1> DEFINE OfLive(op) == {p \in proposals[r] : /\ p.operation = op
                                               /\ p.candidate # None
                                               /\ Live(p.candidate)}
           UpdateOf(k) == {p \in OfLive("update") : p.source = k}
<1>1. /\ DOMAIN Member(r) = BaseCases \cup Created(r) /\ Frozen(Baseline) = BaseCases
      /\ None \notin BaseCases /\ Proposed(r, Settled(r), cases)
  <2>1. Proposed(r, proposals[r], cases)
    BY DEF Inv
  <2>2. Proposed(r, Settled(r), cases)
    BY <2>1, ReconcileProposes DEF Settled
  <2> QED BY <2>2, ConstantsAssumption DEF Member, Frozen, Inv, VersionTypes, BaselineVersion, LibraryIds
<1>2. {p.candidate : p \in OfLive("create")} = Created(r)
  <2>1. ASSUME NEW c \in {p.candidate : p \in OfLive("create")}
        PROVE  c \in Created(r)
    BY <2>1, SameProposals DEF Created
  <2>2. ASSUME NEW c \in Created(r)
        PROVE  c \in {p.candidate : p \in OfLive("create")}
    <3>1. PICK q \in Settled(r) : q.operation = "create" /\ q.candidate = c
      BY DEF Created
    <3>2. c # None /\ Live(c)
      BY <3>1, SettledProposals
    <3>3. PICK p \in proposals[r] : p.candidate = c /\ p.operation = "create"
      BY <3>1, SameProposals
    <3> QED BY <3>2, <3>3
  <2> QED BY <2>1, <2>2
<1>3. EffectiveCases(r) =
         [k \in BaseCases \cup Created(r) |->
            IF k \notin BaseCases THEN [revision |-> 1, content |-> Current(k)]
            ELSE IF UpdateOf(k) = {}
            THEN [revision |-> versions[Baseline].members[k], content |-> versions[Baseline].content[k]]
            ELSE LET p == CHOOSE p \in UpdateOf(k) : TRUE
                 IN  [revision |-> versions[Baseline].members[k] + 1, content |-> Current(p.candidate)]]
  BY <1>1, <1>2 DEF EffectiveCases
<1>4. ASSUME NEW k \in BaseCases
      PROVE  EffectiveCases(r)[k].content = Member(r)[k].content
  <2>1. PICK q \in Settled(r) : q.source = k
    BY <1>1 DEF Proposed
  <2>2. Member(r)[k].content = IF q.operation = "reuse" THEN BaseContent[k] ELSE Current(q.candidate)
    <3>1. Member(r)[q.source] =
             IF q.operation = "reuse"
             THEN [revision |-> 1, content |-> BaseContent[q.source]]
             ELSE [revision |-> Len(library[q.source].revisions) + 1,
                   content  |-> Current(q.candidate)]
      BY <2>1, BaselineMember
    <3>2. CASE q.operation = "reuse"
      BY <2>1, <3>1, <3>2
    <3>3. CASE q.operation # "reuse"
      BY <2>1, <3>1, <3>3
    <3> QED BY <3>2, <3>3
  <2>3. \A p \in proposals[r] : p.source = k =>
           p.operation = q.operation /\ p.candidate = q.candidate
    <3> SUFFICES ASSUME NEW p \in proposals[r], p.source = k
                 PROVE  p.operation = q.operation /\ p.candidate = q.candidate
      OBVIOUS
    <3>1. PICK w \in Settled(r) : /\ w.source = p.source /\ w.candidate = p.candidate
                                  /\ w.operation = p.operation
      BY SameProposals
    <3>2. w = q
      BY <1>1, <2>1, <3>1 DEF Proposed
    <3> QED BY <3>1, <3>2
  <2>4. CASE q.operation = "reuse"
    <3>1. UpdateOf(k) = {}
      BY <2>3, <2>4
    <3>2. EffectiveCases(r)[k].content = versions[Baseline].content[k]
      BY <1>3, <3>1
    <3> QED BY <2>2, <2>4, <3>2, IntactBaseline
  <2>5. CASE q.operation # "reuse"
    <3>1. PICK p \in proposals[r] : /\ p.source = k /\ p.candidate = q.candidate
                                    /\ p.operation = q.operation
      BY <2>1, SameProposals
    <3>2. q.operation = "update" /\ q.candidate # None /\ Live(q.candidate)
      <4>1. q.operation \in {"create", "reuse", "update"} /\ q.source # None
        BY <1>1, <2>1 DEF Proposed, Proposal
      <4> QED BY <2>5, <4>1, SettledProposals
    <3>3. p \in UpdateOf(k)
      BY <3>1, <3>2
    <3>4. (CHOOSE o \in UpdateOf(k) : TRUE) \in UpdateOf(k)
      BY <3>3
    <3>5. (CHOOSE o \in UpdateOf(k) : TRUE).candidate = q.candidate
      BY <2>3, <3>4
    <3> HIDE DEF UpdateOf
    <3>6. EffectiveCases(r)[k].content = Current(q.candidate)
      BY <1>3, <3>3, <3>5
    <3> QED BY <2>2, <2>5, <3>6
  <2> QED BY <2>4, <2>5
<1>5. ASSUME NEW k \in Created(r)
      PROVE  EffectiveCases(r)[k].content = Member(r)[k].content
  <2>1. PICK p \in Settled(r) : p.operation = "create" /\ p.candidate = k
    BY DEF Created
  <2>2. k \notin BaseCases /\ Member(r)[k] = [revision |-> 1, content |-> Current(k)]
    BY <2>1, CreatedMember
  <2> HIDE DEF UpdateOf
  <2> QED BY <1>3, <2>2
<1> HIDE DEF UpdateOf
<1> QED BY <1>1, <1>3, <1>4, <1>5

\* The history of versions gets one more.
LEMMA PublishedVersions ==
    ASSUME Inv, NEW r \in Runs, Publish(r)
    PROVE  /\ IsSequence(versions') /\ versions' # <<>> /\ Len(versions) \in Nat
           /\ DOMAIN versions = 1 .. Len(versions) /\ DOMAIN versions' = 1 .. Len(versions) + 1
           /\ \A v \in DOMAIN versions : versions'[v] = versions[v]
           /\ versions'[Len(versions) + 1] = NewVersion(r) /\ Last(versions') = NewVersion(r)
           /\ Baseline \in DOMAIN versions
<1>1. versions' = Append(versions, NewVersion(r))
  BY DEF Publish, NewVersion, Member, Settled, Created
<1>2. IsSequence(versions) /\ versions # <<>>
  BY DEF Inv, VersionTypes
<1> HIDE DEF NewVersion
<1>3. Baseline \in DOMAIN versions
  BY <1>2, LenProperties, EmptySeq DEF IsSequence, Baseline
<1> QED BY <1>1, <1>2, <1>3, SequenceExtended

LEMMA PublishInv ==
    ASSUME Inv, NEW r \in Runs, Publish(r)
    PROVE  Inv'
<1> DEFINE new == Len(versions) + 1
<1>1. /\ IsSequence(versions') /\ versions' # <<>> /\ Len(versions) \in Nat
      /\ DOMAIN versions = 1 .. Len(versions) /\ DOMAIN versions' = 1 .. new
      /\ \A v \in DOMAIN versions : v \in DOMAIN versions' /\ v # new /\ versions'[v] = versions[v]
      /\ \A v \in DOMAIN versions' : v \in DOMAIN versions \/ v = new
      /\ new \in DOMAIN versions' /\ versions'[new] = NewVersion(r) /\ Baseline \in DOMAIN versions
  BY PublishedVersions
<1> HIDE DEF new
<1>2. /\ cases' = cases /\ audits' = audits /\ drafts' = drafts
      /\ suites' = suites /\ handoffs' = handoffs
      /\ proposals' = [proposals EXCEPT ![r] = Settled(r)] /\ ~Published(r)
      /\ audits[r] = EffectiveCases(r)
  BY DEF Publish, Settled, AuditHolds
<1>3. /\ NewVersion(r).run = r
      /\ DOMAIN NewVersion(r).members = DOMAIN Member(r)
      /\ DOMAIN NewVersion(r).content = DOMAIN Member(r)
      /\ \A k \in DOMAIN Member(r) : /\ NewVersion(r).members[k] = Member(r)[k].revision
                                     /\ NewVersion(r).content[k] = Member(r)[k].content
  BY DEF NewVersion
<1>4. NewVersion(r).content = NewVersion(r).audited
  BY <1>2, AuditedIsPublished DEF NewVersion
<1>5. IsSelection(NewVersion(r).members)
  BY <1>3, MemberOf DEF IsSelection
<1> HIDE DEF NewVersion
<1>6. /\ CaseTypes' /\ LibraryTypes' /\ VersionTypes'
  <2>1. CaseTypes'
    BY <1>2 DEF Inv, CaseTypes
  <2>2. VersionTypes'
    BY <1>1, <1>2, <1>3, <1>5 DEF Inv, VersionTypes
  <2> QED BY <2>1, <2>2, PublishedLibrary
<1>7. DOMAIN proposals' = Runs /\ DOMAIN audits' = Runs /\ DOMAIN drafts' = Keys /\ AuditsCover'
  BY <1>2 DEF Inv, AuditsCover
<1>8. ASSUME NEW q \in Runs
      PROVE  Proposed(q, proposals'[q], cases')
  <2>1. Proposed(q, proposals[q], cases)
    BY DEF Inv
  <2>2. proposals'[q] = IF q = r THEN Reconciled(proposals[q], cases) ELSE proposals[q]
    BY <1>2 DEF Inv, Settled
  <2> QED BY <1>2, <2>1, <2>2, ReconcileProposes
<1>9. \A c \in Candidates : Approved(c, cases'[c])
  BY <1>2 DEF Inv
<1>10. Kept'
  <2>1. ASSUME NEW v \in DOMAIN versions', NEW k \in DOMAIN versions'[v].members
        PROVE  /\ DOMAIN versions'[v].members = DOMAIN versions'[v].content
               /\ versions'[v].members[k] \in DOMAIN library'[k].revisions
               /\ library'[k].revisions[versions'[v].members[k]] = versions'[v].content[k]
    <3>1. CASE v \in DOMAIN versions
      <4>1. k \in LibraryIds
        BY <1>1, <3>1 DEF Inv, VersionTypes, IsSelection
      <4>2. /\ DOMAIN versions[v].members = DOMAIN versions[v].content
            /\ versions[v].members[k] \in DOMAIN library[k].revisions
            /\ library[k].revisions[versions[v].members[k]] = versions[v].content[k]
        BY <1>1, <3>1 DEF Inv, Kept, Frozen
      <4>3. versions'[v] = versions[v]
        BY <1>1, <3>1
      <4> QED BY <4>1, <4>2, <4>3, PublishedLibrary
    <3>2. CASE v = new
      BY <1>1, <1>3, <3>2, PublishedLibrary
    <3> QED BY <1>1, <3>1, <3>2
  <2>2. ASSUME NEW v \in DOMAIN versions'
        PROVE  DOMAIN versions'[v].members = DOMAIN versions'[v].content
    <3>1. CASE v \in DOMAIN versions
      BY <1>1, <3>1 DEF Inv, Kept
    <3>2. CASE v = new
      BY <1>1, <1>3, <3>2
    <3> QED BY <1>1, <3>1, <3>2
  <2>3. ASSUME NEW c \in Candidates, ~Published(RunOf[c])'
        PROVE  library'[c] = Absent
    <3>1. \A v \in DOMAIN versions' : versions'[v].run # RunOf[c]
      BY <2>3 DEF Published
    <3>2. RunOf[c] # r
      BY <1>1, <1>3, <3>1
    <3>3. ~Published(RunOf[c])
      BY <1>1, <3>1 DEF Published
    <3> QED BY <3>2, <3>3, PublishedLibrary DEF Inv, Kept
  <2> QED BY <2>1, <2>2, <2>3 DEF Kept, Frozen
<1>11. Selected'
  BY <1>1, <1>2 DEF Inv, Selected, Selects, Frozen
<1>12. PublishedWasAudited'
  BY <1>1, <1>4 DEF Inv, PublishedWasAudited
<1>13. PublishedWasReviewed'
  <2> SUFFICES ASSUME NEW v \in DOMAIN versions', NEW k \in DOMAIN versions'[v].members
               PROVE  \/ k \in BaseCases /\ versions'[v].members[k] = versions'[Baseline].members[k]
                      \/ \E c \in CasesOf(versions'[v].run) : \E n \in cases[c].approvals :
                            /\ k \in {c, SourceOf[c]}
                            /\ cases[c].revisions[n] = versions'[v].content[k]
    BY <1>2 DEF PublishedWasReviewed, Frozen
  <2>1. CASE v \in DOMAIN versions
    BY <1>1, <2>1 DEF Inv, PublishedWasReviewed, Frozen
  <2>2. CASE v = new
    <3>1. k \in DOMAIN Member(r) /\ versions'[v] = NewVersion(r)
      BY <1>1, <1>3, <2>2
    <3>2. CASE /\ k \in BaseCases /\ Member(r)[k].revision = 1
      BY <1>1, <1>3, <3>1, <3>2, IntactBaseline
    <3>3. CASE \E p \in Settled(r) :
                  /\ \/ p.operation = "update" /\ p.source = k
                     \/ p.operation = "create" /\ p.candidate = k
                  /\ p.candidate \in CasesOf(r) /\ k \in {p.candidate, SourceOf[p.candidate]}
                  /\ Member(r)[k].content = Current(p.candidate)
      <4>1. PICK p \in Settled(r) :
                  /\ \/ p.operation = "update" /\ p.source = k
                     \/ p.operation = "create" /\ p.candidate = k
                  /\ p.candidate \in CasesOf(r) /\ k \in {p.candidate, SourceOf[p.candidate]}
                  /\ Member(r)[k].content = Current(p.candidate)
        BY <3>3
      <4> DEFINE c == p.candidate
                 n == Len(cases[c].revisions)
      <4>2. c \in Candidates /\ c # None
        BY <4>1, ConstantsAssumption DEF CasesOf, LibraryIds
      <4>3. /\ cases[c].state = "approved" /\ p.source = SourceOf[c] /\ p.content = Current(c)
            /\ p.operation = "create" => p.source = None
            /\ p.operation = "update" => p.content.sense # BaseContent[p.source].sense
        BY <4>2, SettledProposals
      <4>4. Approved(c, cases[c])
        BY <4>2 DEF Inv
      <4>5. n \in cases[c].approvals
        BY <4>1, <4>3, <4>4 DEF Approved, Current
      <4>6. cases[c].revisions[n] = NewVersion(r).content[k]
        BY <1>3, <3>1, <4>1 DEF Current, Last
      <4> QED BY <1>3, <3>1, <4>1, <4>5, <4>6
    <3> QED BY <3>1, <3>2, <3>3, MemberOf
  <2> QED BY <1>1, <2>1, <2>2
<1> QED BY <1>2, <1>6, <1>7, <1>8, <1>9, <1>10, <1>11, <1>12, <1>13 DEF Inv

-----------------------------------------------------------------------------
LEMMA Inductive ==
    ASSUME Inv, [Next]_vars
    PROVE  Inv'
<1>1. CASE UNCHANGED vars
  <2>1. UNCHANGED OfCandidates /\ cases' = cases /\ proposals' = proposals /\ audits' = audits
    BY <1>1 DEF vars, OfCandidates
  <2>2. CaseTypes' /\ AuditsCover'
    BY <2>1 DEF Inv, CaseTypes, AuditsCover
  <2> QED BY <2>1, <2>2, CandidateStep DEF Inv
<1>2. ASSUME NEW c \in Candidates, NEW content \in Contents, OfPeople(c, content)
      PROVE  Inv'
  BY <1>2, CreateCaseInv, PatchCaseInv DEF OfPeople
<1>3. ASSUME NEW c \in Candidates, DeleteCase(c)
      PROVE  Inv'
  BY <1>3, DeleteCaseInv
<1>4. ASSUME NEW r \in Runs, ReviewSome(r) \/ ReAudit(r) \/ Publish(r)
      PROVE  Inv'
  BY <1>4, ReviewInv, ReAuditInv, PublishInv
<1>5. ASSUME NEW k \in LibraryIds, NEW content \in Contents, OfKeepers(k, content)
      PROVE  Inv'
  BY <1>5, CreateLibraryCaseInv, EditLibraryCaseInv DEF OfKeepers
<1>6. ASSUME NEW k \in LibraryIds, NEW seen \in DOMAIN library[k].revisions,
             DeprecateLibraryCase(k, seen)
      PROVE  Inv'
  BY <1>6, DeprecateLibraryCaseInv
<1>7. ASSUME NEW v \in DOMAIN versions, OfTesters(v)
      PROVE  Inv'
  BY <1>7, HandOffInv, SuiteDraftInv DEF OfTesters
<1>8. ASSUME NEW key \in Keys, PublishSuiteDraft(key)
      PROVE  Inv'
  BY <1>8, PublishSuiteDraftInv
<1>9. ASSUME NEW n \in DOMAIN suites, DeprecateSuite(n)
      PROVE  Inv'
  BY <1>9, DeprecateSuiteInv
<1> QED BY <1>1, <1>2, <1>3, <1>4, <1>5, <1>6, <1>7, <1>8, <1>9 DEF Next

\* For any number of runs, people and cases, what holds between two operations does hold.
LEMMA AlwaysInv == Spec => []Inv
<1>1. Init => Inv
  BY InitInv
<1>2. Inv /\ [Next]_vars => Inv'
  BY Inductive
<1> QED BY <1>1, <1>2, PTL DEF Spec

-----------------------------------------------------------------------------
\* Every part of the state has its type: in particular each run has exactly one proposal
\* per case of the baseline, which is the one a publication applies.
THEOREM Typed == Spec => []TypeOK
<1>1. Inv => TypeOK
  <2> SUFFICES ASSUME Inv
               PROVE  TypeOK
    OBVIOUS
  <2>1. ASSUME NEW k \in LibraryIds
        PROVE  /\ library[k].status \in {"absent", "active", "deprecated"}
               /\ library[k].revisions \in Seq(Contents)
    BY DEF Inv, LibraryTypes
  <2>2. ASSUME NEW c \in Candidates
        PROVE  /\ cases[c].revisions \in Seq(Contents)
               /\ cases[c].state \in {"draft", "in_review", "approved", "rejected", "needs_revision"}
               /\ cases[c].approvals \subseteq DOMAIN cases[c].revisions
    BY DEF Inv, CaseTypes, Approved, States
  <2>3. ASSUME NEW r \in Runs
        PROVE  /\ \A b \in BaseCases : Cardinality({p \in proposals[r] : p.source = b}) = 1
               /\ \A p \in proposals[r] : p.operation = "create" <=> p.source = None
               /\ audits[r] # None => BaseCases \subseteq DOMAIN audits[r]
    <3>1. Proposed(r, proposals[r], cases)
      BY DEF Inv
    <3>2. ASSUME NEW b \in BaseCases
          PROVE  Cardinality({p \in proposals[r] : p.source = b}) = 1
      <4>1. PICK p \in proposals[r] : p.source = b
        BY <3>1 DEF Proposed
      <4>2. b # None
        BY ConstantsAssumption DEF LibraryIds
      <4>3. {q \in proposals[r] : q.source = b} = {p}
        BY <3>1, <4>1, <4>2 DEF Proposed
      <4> QED BY <4>3, FS_Singleton
    <3>3. \A p \in proposals[r] : p.operation = "create" <=> p.source = None
      BY <3>1 DEF Proposed
    <3> QED BY <3>2, <3>3 DEF Inv, AuditsCover
  <2>4. \A v \in DOMAIN versions : IsSelection(versions[v].members)
    BY DEF Inv, VersionTypes
  <2>5. ASSUME NEW s, Selects(s)
        PROVE  IsSelection(s.members)
    BY <2>4, <2>5 DEF Selects, IsSelection, Frozen
  <2>6. /\ \A s \in DOMAIN suites : IsSelection(suites[s].members)
        /\ \A h \in handoffs : IsSelection(h.members)
    BY <2>5 DEF Inv, Selected
  <2> QED BY <2>1, <2>2, <2>3, <2>4, <2>6 DEF TypeOK
<1> QED BY <1>1, AlwaysInv, PTL

\* Whatever is edited, withdrawn, deleted, reviewed and published in which order: what is in
\* a version went through both gates in exactly that form.
THEOREM OnlyAcceptedIsPublished == Spec => []PublishedWasAccepted
<1>1. Inv => PublishedWasAccepted
  BY DEF Inv, PublishedWasAccepted
<1> QED BY <1>1, AlwaysInv, PTL

\* Whatever edits, deletions, reviews and library operations came before, a run whose live
\* candidates are all approved has no proposal and no frozen revision that keeps it from
\* publication, but for a creation left by an edit of a deleted candidate; and the proposals
\* there are cover the baseline.
THEOREM ApprovalSuffices == Spec => []ReviewIsEnough
<1>1. Inv => ApprovedCanBePublished
  <2> SUFFICES ASSUME Inv, NEW r \in Runs, Reviewed(r)
               PROVE  /\ BaselineIntact
                      /\ \A p \in Settled(r) :
                            \/ p.decision = "accepted"
                            \/ p.operation = "create" /\ cases[p.candidate].tombstoned
    BY DEF ApprovedCanBePublished, Settled
  <2>1. BaselineIntact
    <3>1. Frozen(Baseline) = BaseCases
      BY DEF Inv, VersionTypes, BaselineVersion, Frozen
    <3> QED BY <3>1, IntactBaseline DEF BaselineIntact
  <2>2. ASSUME NEW p \in Settled(r), p.decision # "accepted"
        PROVE  p.operation = "create" /\ cases[p.candidate].tombstoned
    <3>1. Proposed(r, proposals[r], cases)
      BY DEF Inv
    <3>2. PICK q \in proposals[r] :
             p = IF /\ q.decision = "pending"
                    /\ \/ q.operation = "reuse"
                       \/ /\ q.candidate # None
                          /\ ~cases[q.candidate].tombstoned
                          /\ cases[q.candidate].state = "approved"
                 THEN [q EXCEPT !.decision = "accepted"] ELSE q
      BY DEF Settled, Reconciled
    <3>3. q \in Proposal
      BY <3>1 DEF Proposed
    <3>4. p = q /\ q.decision = "pending"
      BY <2>2, <3>2, <3>3 DEF Proposal
    <3>5. q.candidate # None
      BY <2>2, <3>1, <3>2, <3>3, <3>4 DEF Proposed, Proposal
    <3>6. CASE cases[q.candidate].tombstoned
      BY <3>1, <3>4, <3>5, <3>6 DEF Proposed
    <3>7. CASE ~cases[q.candidate].tombstoned
      <4>1. q.candidate \in CasesOf(r) /\ Live(q.candidate)
        BY <3>1, <3>3, <3>5, <3>7 DEF Proposed, Proposal, CasesOf, Live, Exists
      <4>2. cases[q.candidate].state = "approved"
        BY <4>1 DEF Reviewed
      <4> QED BY <2>2, <3>2, <3>3, <3>4, <3>5, <3>7, <4>2 DEF Proposal
    <3> QED BY <3>4, <3>6, <3>7
  <2> QED BY <2>1, <2>2
<1> QED BY <1>1, AlwaysInv, Typed, PTL DEF ReviewIsEnough

\* What a version, a suite or a handoff refers to has the frozen content.
LEMMA FrozenSelections ==
    ASSUME Inv
    PROVE  SelectionsStayFrozen
<1> DEFINE Intact(v, m) == \A k \in DOMAIN m :
            /\ k \in Frozen(v) /\ m[k] = versions[v].members[k]
            /\ m[k] \in DOMAIN library[k].revisions
            /\ library[k].revisions[m[k]] = versions[v].content[k]
<1>1. \A v \in DOMAIN versions : Intact(v, versions[v].members)
  BY DEF Inv, Kept, Frozen
<1>2. ASSUME NEW s, Selects(s)
      PROVE  Intact(s.version, s.members)
  BY <1>1, <1>2 DEF Selects, Frozen
<1>3. /\ \A s \in DOMAIN suites : Intact(suites[s].version, suites[s].members)
      /\ \A h \in handoffs : Intact(h.version, h.members)
  BY <1>2 DEF Inv, Selected
<1> QED BY <1>1, <1>3 DEF SelectionsStayFrozen

\* The steps that change the library or its versions.
LEMMA StepOf ==
    ASSUME [Next]_vars
    PROVE  \/ library' = library /\ versions' = versions
           \/ \E r \in Runs : Publish(r)
           \/ /\ versions' = versions
              /\ \E k \in LibraryIds : \/ \E content \in Contents : OfKeepers(k, content)
                                       \/ \E seen \in DOMAIN library[k].revisions : DeprecateLibraryCase(k, seen)
<1> DEFINE Same == library' = library /\ versions' = versions
<1>1. CASE UNCHANGED vars
  BY <1>1 DEF vars
<1>2. ASSUME NEW c \in Candidates, NEW content \in Contents, OfPeople(c, content)
      PROVE  Same
  BY <1>2 DEF OfPeople, CreateCase, PatchCase, OfCandidates
<1>3. ASSUME NEW c \in Candidates, DeleteCase(c)
      PROVE  Same
  BY <1>3 DEF DeleteCase, OfCandidates
<1>4. ASSUME NEW r \in Runs, ReviewSome(r) \/ ReAudit(r)
      PROVE  Same
  BY <1>4 DEF ReviewSome, Review, ReAudit, OfCandidates
<1>5. ASSUME NEW k \in LibraryIds, NEW content \in Contents, OfKeepers(k, content)
      PROVE  versions' = versions
  BY <1>5 DEF OfKeepers, CreateLibraryCase, EditLibraryCase, OfLibrary
<1>6. ASSUME NEW k \in LibraryIds, NEW seen \in DOMAIN library[k].revisions,
             DeprecateLibraryCase(k, seen)
      PROVE  versions' = versions
  BY <1>6 DEF DeprecateLibraryCase, OfLibrary
<1>7. ASSUME NEW v \in DOMAIN versions, OfTesters(v)
      PROVE  Same
  BY <1>7 DEF OfTesters, HandOffAll, HandOffSuite, CreateSuiteDraft, UpdateSuiteDraft, OfSuites
<1>8. ASSUME NEW key \in Keys, PublishSuiteDraft(key)
      PROVE  Same
  BY <1>8 DEF PublishSuiteDraft, OfSuites
<1>9. ASSUME NEW n \in DOMAIN suites, DeprecateSuite(n)
      PROVE  Same
  BY <1>9 DEF DeprecateSuite, OfSuites
<1> QED BY <1>1, <1>2, <1>3, <1>4, <1>5, <1>6, <1>7, <1>8, <1>9 DEF Next

LEMMA HistoryStep ==
    ASSUME Inv, [Next]_vars
    PROVE  HistoryIsKept
<1>1. CASE library' = library /\ versions' = versions
  BY <1>1 DEF HistoryIsKept
<1>2. ASSUME NEW r \in Runs, Publish(r)
      PROVE  HistoryIsKept
  BY <1>2, PublishedLibrary DEF HistoryIsKept
<1>3. ASSUME NEW k \in LibraryIds, \/ \E content \in Contents : OfKeepers(k, content)
                                   \/ \E seen \in DOMAIN library[k].revisions :
                                         DeprecateLibraryCase(k, seen)
      PROVE  HistoryIsKept
  BY <1>3, CreateLibraryCaseInv, EditLibraryCaseInv, DeprecateLibraryCaseInv DEF OfKeepers
<1> QED BY <1>1, <1>2, <1>3, StepOf

\* No operation of anybody rewrites a revision or moves a selection away from what its
\* version froze.
THEOREM PublishedIsKept == Spec => PublishedStaysPublished
<1>1. Inv => SelectionsStayFrozen
  BY FrozenSelections
<1>2. Inv /\ [Next]_vars => [HistoryIsKept]_vars
  BY HistoryStep
<1> QED BY <1>1, <1>2, AlwaysInv, PTL DEF Spec, PublishedStaysPublished

\* A publication reaches every live candidate of its run and keeps the whole baseline.
LEMMA PublishesAll ==
    ASSUME Inv, NEW r \in Runs, Publish(r)
    PROVE  LET content == NewVersion(r).content IN
           /\ BaseCases \subseteq DOMAIN content
           /\ \A c \in CasesOf(r) : Live(c) =>
                 \E k \in DOMAIN content \cap {c, SourceOf[c]} : content[k].sense = Current(c).sense
<1>1. /\ DOMAIN NewVersion(r).content = DOMAIN Member(r)
      /\ \A k \in DOMAIN Member(r) : NewVersion(r).content[k] = Member(r)[k].content
  BY DEF NewVersion
<1>2. Proposed(r, Settled(r), cases) /\ DOMAIN Member(r) = BaseCases \cup Created(r)
  <2>1. Proposed(r, proposals[r], cases)
    BY DEF Inv
  <2> QED BY <2>1, ReconcileProposes DEF Settled, Member, Frozen, Inv, VersionTypes, BaselineVersion
<1>3. ASSUME NEW c \in CasesOf(r), Live(c)
      PROVE  \E k \in DOMAIN Member(r) \cap {c, SourceOf[c]} : Member(r)[k].content.sense = Current(c).sense
  <2>1. PICK p \in Settled(r) : p.candidate = c
    BY <1>2, <1>3 DEF Proposed, Live, Exists
  <2>2. c # None
    BY ConstantsAssumption DEF CasesOf, LibraryIds
  <2>3. p.source = SourceOf[c] /\ p.content = Current(c) /\ p \in Proposal
    BY <2>1, <2>2, SettledProposals
  <2>4. CASE p.operation = "create"
    <3>1. c \in DOMAIN Member(r) /\ Member(r)[c] = [revision |-> 1, content |-> Current(c)]
      BY <2>1, <2>4, CreatedMember
    <3> QED BY <3>1
  <2>5. CASE p.operation # "create"
    <3>1. p.source \in BaseCases /\ p.source \in DOMAIN Member(r)
          /\ Member(r)[p.source] =
                 IF p.operation = "reuse"
                 THEN [revision |-> 1, content |-> BaseContent[p.source]]
                 ELSE [revision |-> Len(library[p.source].revisions) + 1,
                       content  |-> Current(p.candidate)]
      BY <2>5, SettledProposals, BaselineMember
    <3>2. p.operation = "reuse" => p.content.sense = BaseContent[p.source].sense
      BY SettledProposals
    <3>3. Member(r)[p.source].content.sense = Current(c).sense
      <4>1. CASE p.operation = "reuse"
        BY <2>3, <3>1, <3>2, <4>1
      <4>2. CASE p.operation # "reuse"
        BY <2>1, <3>1, <4>2
      <4> QED BY <4>1, <4>2
    <3> QED BY <2>3, <3>1, <3>3
  <2> QED BY <2>4, <2>5
<1> QED BY <1>1, <1>2, <1>3

\* A publication leaves no live candidate and no case of the baseline out.
THEOREM LiveIsPublished == Spec => EverythingLiveIsPublished
<1> DEFINE Complete ==
        \A r \in Runs : Published(r)' /\ ~Published(r) =>
          LET content == Last(versions').content IN
          /\ BaseCases \subseteq DOMAIN content
          /\ \A c \in CasesOf(r) : Live(c) =>
                \E k \in DOMAIN content \cap {c, SourceOf[c]} : content[k].sense = Current(c).sense
<1>1. ASSUME Inv, [Next]_vars
      PROVE  Complete
  <2>1. CASE versions' = versions
    BY <2>1 DEF Published
  <2>2. ASSUME NEW r \in Runs, Publish(r)
        PROVE  Complete
    <3>1. /\ Last(versions') = NewVersion(r)
          /\ \A v \in DOMAIN versions' :
                \/ versions'[v].run = r
                \/ v \in DOMAIN versions /\ versions'[v] = versions[v]
      <4>1. NewVersion(r).run = r
        BY DEF NewVersion
      <4> HIDE DEF NewVersion
      <4>2. /\ Last(versions') = NewVersion(r) /\ Len(versions) \in Nat
            /\ DOMAIN versions = 1 .. Len(versions) /\ DOMAIN versions' = 1 .. Len(versions) + 1
            /\ \A v \in DOMAIN versions : versions'[v] = versions[v]
            /\ versions'[Len(versions) + 1] = NewVersion(r)
        BY <1>1, <2>2, PublishedVersions
      <4>3. \A v \in DOMAIN versions' : v \in DOMAIN versions \/ v = Len(versions) + 1
        BY <4>2
      <4> QED BY <4>1, <4>2, <4>3
    <3>2. ASSUME NEW q \in Runs, Published(q)', ~Published(q)
          PROVE  q = r
      BY <3>1, <3>2 DEF Published
    <3>3. LET content == NewVersion(r).content IN
          /\ BaseCases \subseteq DOMAIN content
          /\ \A c \in CasesOf(r) : Live(c) =>
                \E k \in DOMAIN content \cap {c, SourceOf[c]} : content[k].sense = Current(c).sense
      BY <1>1, <2>2, PublishesAll
    <3> QED BY <3>1, <3>2, <3>3
  <2> QED BY <1>1, <2>1, <2>2, StepOf
<1>2. Inv /\ [Next]_vars => [Complete]_vars
  BY <1>1
<1> QED BY <1>2, AlwaysInv, PTL DEF Spec, EverythingLiveIsPublished
=============================================================================
