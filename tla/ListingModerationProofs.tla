----------------------- MODULE ListingModerationProofs -----------------------
(***************************************************************************)
(* Types and appeals of ListingModeration, for any number of reports,      *)
(* requests and visitors.                                                  *)
(***************************************************************************)
EXTENDS ListingModeration, TLAPS

ReportOps == {"hide", "hideListing", "clearHide", "otherHides", "showListing", "appeal"}
OnReport == [op : ReportOps, report : Reports]
Deciding == [op : {"decide"}, report : Reports, approved : BOOLEAN, hides : BOOLEAN]
Row == [hides : BOOLEAN, appeal : Appeals]

-----------------------------------------------------------------------------
\* The shapes of a request.

LEMMA Shapes ==
  /\ Idle \in RequestType /\ [op |-> "dropCopy"] \in RequestType
  /\ OnReport \subseteq RequestType /\ Deciding \subseteq RequestType
BY DEF RequestType, OnReport, ReportOps, Deciding

LEMMA AtWorkOnReport ==
  ASSUME TypeOK, NEW q \in Requests, request[q].op \in ReportOps
  PROVE  request[q] \in OnReport /\ request[q].report \in Reports
<1>1. request[q] \in RequestType
  BY DEF TypeOK
<1>2. request[q] \in OnReport
  BY <1>1 DEF RequestType, Idle, OnReport, ReportOps
<1> QED BY <1>2 DEF OnReport

LEMMA AtWorkOnVerdict ==
  ASSUME TypeOK, NEW q \in Requests, request[q].op = "decide"
  PROVE  request[q] \in Deciding /\ request[q].report \in Reports
         /\ Verdict(request[q].approved) \in {"approved", "denied"}
<1>1. request[q] \in RequestType
  BY DEF TypeOK
<1>2. request[q] \in Deciding
  BY <1>1 DEF RequestType, Idle, Deciding
<1> QED BY <1>2 DEF Deciding, Verdict

\* A request becomes another well-formed one.
LEMMA RequestReplaced ==
  ASSUME TypeOK, NEW q \in Requests, NEW t \in RequestType,
         request' = [request EXCEPT ![q] = t]
  PROVE  request' \in [Requests -> RequestType]
BY DEF TypeOK

LEMMA RequestAdvances ==
  ASSUME TypeOK, NEW q \in Requests, NEW op \in ReportOps,
         request[q].op \in ReportOps, Advance(q, op)
  PROVE  request' \in [Requests -> RequestType]
<1> DEFINE t == [request[q] EXCEPT !.op = op]
<1>1. request[q] \in OnReport
  BY AtWorkOnReport
<1>2. t \in OnReport
  BY <1>1 DEF OnReport
<1>3. request' = [request EXCEPT ![q] = t]
  BY DEF Advance
<1> HIDE DEF t
<1> QED BY <1>2, <1>3, Shapes, RequestReplaced

LEMMA RequestEnds ==
  ASSUME TypeOK, NEW q \in Requests, Finish(q)
  PROVE  request' \in [Requests -> RequestType]
BY Shapes, RequestReplaced DEF Finish

\* One field of one report changes.
LEMMA HidesBecomes ==
  ASSUME TypeOK, NEW r \in Reports, NEW b \in BOOLEAN,
         report' = [report EXCEPT ![r].hides = b]
  PROVE  /\ report' \in [Reports -> Row]
         /\ \A s \in Reports : report'[s].appeal = report[s].appeal
<1>1. report \in [Reports -> Row] /\ report[r] \in Row
  BY DEF TypeOK, Row
<1>2. [report[r] EXCEPT !.hides = b] \in Row
      /\ [report[r] EXCEPT !.hides = b].appeal = report[r].appeal
  BY <1>1 DEF Row
<1>3. report' = [report EXCEPT ![r] = [report[r] EXCEPT !.hides = b]]
  OBVIOUS
<1> QED BY <1>1, <1>2, <1>3

LEMMA AppealBecomes ==
  ASSUME TypeOK, NEW r \in Reports, NEW a \in Appeals,
         report' = [report EXCEPT ![r].appeal = a]
  PROVE  /\ report' \in [Reports -> Row]
         /\ report'[r].appeal = a
         /\ \A s \in Reports \ {r} : report'[s] = report[s]
<1>1. report \in [Reports -> Row] /\ report[r] \in Row
  BY DEF TypeOK, Row
<1>2. [report[r] EXCEPT !.appeal = a] \in Row /\ [report[r] EXCEPT !.appeal = a].appeal = a
  BY <1>1 DEF Row
<1>3. report' = [report EXCEPT ![r] = [report[r] EXCEPT !.appeal = a]]
  OBVIOUS
<1> QED BY <1>1, <1>2, <1>3

-----------------------------------------------------------------------------
\* What the steps do to the appeals: only an answer to an appeal under way, or
\* a new appeal, changes one.

Answered ==
  \A r \in Reports :
    report'[r].appeal # report[r].appeal
    => <<report[r].appeal, report'[r].appeal>> \in
         {<<"none", "pending">>, <<"denied", "pending">>,
          <<"pending", "approved">>, <<"pending", "denied">>}

LEMMA FilingStep ==
  ASSUME TypeOK, NEW q \in Requests, FileAppeal(q)
  PROVE  TypeOK' /\ Answered
<1> DEFINE r == request[q].report
<1>1. r \in Reports
  BY AtWorkOnReport DEF FileAppeal, ReportOps
<1>2. request' \in [Requests -> RequestType]
  BY RequestEnds DEF FileAppeal
<1>3. CASE report[r].appeal \in {"none", "denied"}
  <2>1. report' = [report EXCEPT ![r].appeal = "pending"]
    BY <1>3 DEF FileAppeal
  <2>2. /\ report' \in [Reports -> Row]
        /\ report'[r].appeal = "pending"
        /\ \A s \in Reports \ {r} : report'[s] = report[s]
    BY <1>1, <2>1, AppealBecomes DEF Appeals
  <2>3. TypeOK'
    BY <1>2, <2>2 DEF TypeOK, FileAppeal, listing, public, Row
  <2> QED BY <1>3, <2>2, <2>3 DEF Answered
<1>4. CASE report[r].appeal \notin {"none", "denied"}
  <2>1. report' = report
    BY <1>4 DEF FileAppeal
  <2> QED BY <1>2, <2>1 DEF TypeOK, FileAppeal, listing, public, Answered
<1> QED BY <1>3, <1>4

LEMMA DecisionStep ==
  ASSUME TypeOK, NEW q \in Requests, Decide(q)
  PROVE  TypeOK' /\ Answered
<1> DEFINE t == request[q]
           r == t.report
           verdict == Verdict(t.approved)
           next == IF t.approved /\ t.hides
                   THEN [op |-> "clearHide", report |-> r] ELSE Idle
<1>1. r \in Reports /\ verdict \in {"approved", "denied"}
  BY AtWorkOnVerdict DEF Decide
<1>2. CASE StillPending(r)
  <2>1. /\ report' = [report EXCEPT ![r].appeal = verdict]
        /\ request' = [request EXCEPT ![q] = next]
    BY <1>2 DEF Decide
  <2>2. next \in RequestType
    BY <1>1, Shapes DEF OnReport, ReportOps
  <2> HIDE DEF next
  <2>3. request' \in [Requests -> RequestType]
    BY <2>1, <2>2, RequestReplaced
  <2>4. /\ report' \in [Reports -> Row]
        /\ report'[r].appeal = verdict
        /\ \A s \in Reports \ {r} : report'[s] = report[s]
    BY <1>1, <2>1, AppealBecomes DEF Appeals
  <2>5. TypeOK'
    BY <2>3, <2>4 DEF TypeOK, Decide, listing, public, Row
  <2> QED BY <1>1, <1>2, <2>4, <2>5 DEF Answered, StillPending
<1>3. CASE ~StillPending(r)
  <2>1. Finish(q) /\ report' = report
    BY <1>3 DEF Decide
  <2>2. request' \in [Requests -> RequestType]
    BY <2>1, RequestEnds
  <2> QED BY <2>1, <2>2 DEF TypeOK, Decide, listing, public, Answered
<1> QED BY <1>2, <1>3

\* A request starts and leaves the rows alone.
LEMMA BeginStep ==
  ASSUME TypeOK, NEW q \in Requests, NEW t \in RequestType, Begin(q, t)
  PROVE  TypeOK' /\ Answered
BY RequestReplaced DEF Begin, TypeOK, Answered, listing, public

LEMMA BeginsStep ==
  ASSUME TypeOK, NEW q \in Requests, Begins(q)
  PROVE  TypeOK' /\ Answered
<1>1. ASSUME NEW r \in Reports,
             hideProperty(q, r) \/ unhideProperty(q, r) \/ submitAppeal(q, r)
      PROVE  TypeOK' /\ Answered
  <2>1. \A op \in ReportOps : [op |-> op, report |-> r] \in RequestType
    BY Shapes DEF OnReport
  <2> QED BY <1>1, <2>1, BeginStep DEF hideProperty, unhideProperty, submitAppeal, ReportOps
<1>2. ASSUME NEW r \in Reports, NEW approved \in BOOLEAN,
             reviewAppeal(q, r, approved)
      PROVE  TypeOK' /\ Answered
  <2> DEFINE t == [op |-> "decide", report |-> r, approved |-> approved,
                   hides |-> report[r].hides]
  <2>1. report[r].hides \in BOOLEAN
    BY DEF TypeOK
  <2>2. t \in RequestType
    BY <2>1, Shapes DEF Deciding
  <2>3. Begin(q, t)
    BY <1>2 DEF reviewAppeal
  <2> HIDE DEF t
  <2> QED BY <2>2, <2>3, BeginStep
<1>3. CASE deleteProperty(q)
  <2>1. request' \in [Requests -> RequestType]
    BY <1>3, Shapes, RequestReplaced DEF deleteProperty
  <2> QED BY <1>3, <2>1 DEF deleteProperty, TypeOK, Answered, public
<1>4. CASE updateProperty(q)
  BY <1>4, Shapes, BeginStep DEF updateProperty
<1> QED BY <1>1, <1>2, <1>3, <1>4 DEF Begins

LEMMA HideStep ==
  ASSUME TypeOK, NEW q \in Requests,
         \/ RecordHide(q) \/ HideListing(q)
         \/ clearHide(q) \/ hasOtherActiveHide(q) \/ ShowListing(q)
  PROVE  TypeOK' /\ Answered
<1>1. CASE RecordHide(q)
  <2>1. request[q].report \in Reports /\ request' \in [Requests -> RequestType]
    BY <1>1, AtWorkOnReport, RequestAdvances DEF RecordHide, ReportOps
  <2>2. /\ report' \in [Reports -> Row]
        /\ \A s \in Reports : report'[s].appeal = report[s].appeal
    BY <1>1, <2>1, HidesBecomes DEF RecordHide
  <2> QED BY <1>1, <2>1, <2>2 DEF RecordHide, TypeOK, Answered, listing, public, Row
<1>2. CASE HideListing(q)
  <2>1. request' \in [Requests -> RequestType]
    BY <1>2, RequestEnds DEF HideListing
  <2> QED BY <1>2, <2>1 DEF HideListing, TypeOK, Answered, public
<1>3. CASE clearHide(q)
  <2>1. request[q].report \in Reports /\ request' \in [Requests -> RequestType]
    BY <1>3, AtWorkOnReport, RequestAdvances DEF clearHide, ReportOps
  <2>2. /\ report' \in [Reports -> Row]
        /\ \A s \in Reports : report'[s].appeal = report[s].appeal
    BY <1>3, <2>1, HidesBecomes DEF clearHide
  <2> QED BY <1>3, <2>1, <2>2 DEF clearHide, TypeOK, Answered, listing, public, Row
<1>4. CASE hasOtherActiveHide(q)
  <2>1. request' \in [Requests -> RequestType]
    BY <1>4, RequestEnds, RequestAdvances DEF hasOtherActiveHide, ReportOps
  <2> QED BY <1>4, <2>1 DEF hasOtherActiveHide, TypeOK, Answered, listing, public
<1>5. CASE ShowListing(q)
  <2>1. request' \in [Requests -> RequestType]
    BY <1>5, RequestEnds DEF ShowListing
  <2> QED BY <1>5, <2>1 DEF ShowListing, TypeOK, Answered, public
<1> QED BY <1>1, <1>2, <1>3, <1>4, <1>5

LEMMA OtherStep ==
  ASSUME TypeOK, NEW q \in Requests, DropCopy(q) \/ Fail(q)
  PROVE  TypeOK' /\ Answered
<1>1. request' \in [Requests -> RequestType]
  BY RequestEnds DEF DropCopy, Fail
<1> QED BY <1>1 DEF DropCopy, Fail, TypeOK, Answered, listing, public

LEMMA PublicStep ==
  ASSUME TypeOK, CopyExpires \/ \E v \in Visitors : Read(v)
  PROVE  TypeOK' /\ Answered
BY DEF TypeOK, Answered, CopyExpires, Read, getPropertyById, StoreCopy, StoreFails, listing

-----------------------------------------------------------------------------
LEMMA Initially == Init => TypeOK
<1> SUFFICES ASSUME Init PROVE TypeOK
  OBVIOUS
<1>1. Filed \in [hides : BOOLEAN, appeal : Appeals]
  BY DEF Filed, Appeals
<1>2. report \in [Reports -> [hides : BOOLEAN, appeal : Appeals]]
  BY <1>1 DEF Init
<1>3. request \in [Requests -> RequestType]
  BY Shapes DEF Init
<1> QED BY <1>2, <1>3 DEF Init, TypeOK

LEMMA Stepwise == TypeOK /\ [Next]_vars => TypeOK' /\ Answered
<1> SUFFICES ASSUME TypeOK, [Next]_vars PROVE TypeOK' /\ Answered
  OBVIOUS
<1>1. CASE UNCHANGED vars
  BY <1>1 DEF vars, TypeOK, Answered
<1>2. CASE Next
  <2>1. ASSUME NEW q \in Requests, Continues(q)
        PROVE  TypeOK' /\ Answered
    BY <2>1, HideStep, FilingStep, DecisionStep, OtherStep DEF Continues
  <2> QED BY <1>2, <2>1, BeginsStep, PublicStep DEF Next
<1> QED BY <1>1, <1>2

\* Reports, requests, visitors and the cache stay well formed.
THEOREM TypesCorrect == Spec => []TypeOK
<1>1. TypeOK /\ [Next]_vars => TypeOK'
  BY Stepwise
<1> QED BY <1>1, Initially, PTL DEF Spec

\* An appeal is decided once, by however many moderators at a time: verdicts
\* fall on pending appeals only, and an approval is final.
THEOREM AppealsDecidedOnce == Spec => DecidedOnce
<1>1. TypeOK /\ [Next]_vars => [Answered]_vars
  BY Stepwise
<1>2. Spec => [][Answered]_vars
  BY <1>1, TypesCorrect, PTL DEF Spec
<1> QED BY <1>2 DEF DecidedOnce, Answered
=============================================================================
