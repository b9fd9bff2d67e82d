-------------------------- MODULE BlogContentProofs --------------------------
(***************************************************************************)
(* Theorems about BlogContent, for any sets of blogs, posts and websites.  *)
(***************************************************************************)
EXTENDS BlogContent, TLAPS

-----------------------------------------------------------------------------
(* Type correctness *)

\* Every action keeps every variable in its type.
LEMMA NextTypeOK == TypeOK /\ [Next]_vars => TypeOK'
<1> SUFFICES ASSUME TypeOK, [Next]_vars PROVE TypeOK'
  OBVIOUS
<1> USE NoneAssumption DEF TypeOK, blogVars, rowVars, BlogFact, PostFact,
                           BlogEvents, PostEvents
<1>1. ASSUME NEW b \in Blogs, BlogVerb(b) PROVE TypeOK'
  <2>1. ASSUME NEW s \in Sites, CreateBlog(b, s) PROVE TypeOK'
    BY <2>1 DEF CreateBlog
  <2>2. ASSUME NEW s \in Sites, MoveBlog(b, s) PROVE TypeOK'
    BY <2>2 DEF MoveBlog
  <2>3. CASE PatchBlog(b)
    BY <2>3 DEF PatchBlog
  <2>4. CASE ArchiveBlog(b)
    <3>1. CascadeTargets(b) \in SUBSET Posts
      BY DEF CascadeTargets, PostsOf
    <3>2. QED
      BY <2>4, <3>1 DEF ArchiveBlog, MarkersAfterCascade, FlagsAfterCascade
  <2>5. CASE UnarchiveBlog(b)
    <3>1. RestoreTargets(b) \in SUBSET Posts
      BY DEF RestoreTargets
    <3>2. QED
      BY <2>5, <3>1 DEF UnarchiveBlog, FlagsAfterRestore
  <2>6. CASE DeleteBlog(b)
    BY <2>6 DEF DeleteBlog
  <2>7. CASE RefuseDeleteBlog(b)
    BY <2>7 DEF RefuseDeleteBlog
  <2> QED
    BY <1>1, <2>1, <2>2, <2>3, <2>4, <2>5, <2>6, <2>7 DEF BlogVerb
<1>2. ASSUME NEW p \in Posts, PostVerb(p) PROVE TypeOK'
  <2>1. ASSUME NEW b \in Blogs, CreatePost(p, b) PROVE TypeOK'
    BY <2>1 DEF CreatePost, DerivedSite
  <2>2. CASE PatchPost(p)
    BY <2>2 DEF PatchPost
  <2>3. CASE RefuseFencedPatch(p)
    BY <2>3 DEF RefuseFencedPatch
  <2>4. CASE PublishPost(p)
    BY <2>4 DEF PublishPost
  <2>5. CASE UnpublishPost(p)
    BY <2>5 DEF UnpublishPost
  <2>6. CASE ArchivePost(p)
    BY <2>6 DEF ArchivePost
  <2>7. CASE UnarchivePost(p)
    BY <2>7 DEF UnarchivePost
  <2>8. CASE PublishAgain(p) \/ UnpublishAgain(p) \/ ArchiveAgain(p)
    BY <2>8 DEF PublishAgain, UnpublishAgain, ArchiveAgain, NothingWritten
  <2> QED
    BY <1>2, <2>1, <2>2, <2>3, <2>4, <2>5, <2>6, <2>7, <2>8 DEF PostVerb
<1>3. CASE UNCHANGED vars
  BY <1>3 DEF vars
<1> QED
  BY <1>1, <1>2, <1>3 DEF Next

\* Rows, flags, markers and audit rows keep their types: no verb writes a
\* value of another column.
THEOREM TypeCorrect == Spec => []TypeOK
<1>1. Init => TypeOK
  BY NoneAssumption DEF Init, TypeOK
<1> QED
  BY <1>1, NextTypeOK, PTL DEF Spec

-----------------------------------------------------------------------------
(* The inductive invariant *)

\* A post that has no row carries no flag, no marker and no history.
AbsentPostsBlank ==
  \A p \in Posts : ~PostExists(p) =>
    ~published[p] /\ ~archived[p] /\ marker[p] = None /\ archivedBy[p] = "nobody"

\* MarkerInForce is not inductive alone: a create would give a row to a slot
\* with a marker, a delete would take the blog away under one.  Blank slots
\* and PostsBelong close the two gaps.
IInv ==
  /\ TypeOK
  /\ AbsentPostsBlank
  /\ PostsBelong
  /\ MarkerInForce
  /\ CascadeRestorable
  /\ UntouchedStayArchived

\* The verbs on blogs keep the invariant.
LEMMA BlogVerbIInv ==
  ASSUME IInv, NEW b \in Blogs, BlogVerb(b)
  PROVE  IInv'
<1> USE NoneAssumption DEF IInv
<1>1. TypeOK'
  BY NextTypeOK DEF Next
<1> USE DEF TypeOK, AbsentPostsBlank, PostsBelong, MarkerInForce, CascadeRestorable,
            UntouchedStayArchived, PostExists, BlogExists, blogVars, rowVars
<1>2. ASSUME NEW s \in Sites, CreateBlog(b, s) PROVE IInv'
  BY <1>1, <1>2 DEF CreateBlog
<1>3. ASSUME NEW s \in Sites, MoveBlog(b, s) PROVE IInv'
  BY <1>1, <1>3 DEF MoveBlog, IsEmpty, PostsOf
<1>4. CASE PatchBlog(b)
  BY <1>1, <1>4 DEF PatchBlog
<1>5. CASE ArchiveBlog(b)
  <2> USE <1>5 DEF ArchiveBlog, CascadeTargets, PostsOf, MarkersAfterCascade, FlagsAfterCascade
  <2>1. AbsentPostsBlank'
    OBVIOUS
  <2>2. PostsBelong'
    OBVIOUS
  <2>3. MarkerInForce'
    OBVIOUS
  <2>4. CascadeRestorable'
    OBVIOUS
  <2>5. UntouchedStayArchived'
    OBVIOUS
  <2> QED
    BY <1>1, <2>1, <2>2, <2>3, <2>4, <2>5
<1>6. CASE UnarchiveBlog(b)
  <2> USE <1>6 DEF UnarchiveBlog, RestoreTargets, FlagsAfterRestore
  <2>1. AbsentPostsBlank'
    OBVIOUS
  <2>2. PostsBelong'
    OBVIOUS
  <2>3. MarkerInForce'
    OBVIOUS
  <2>4. CascadeRestorable'
    OBVIOUS
  <2>5. UntouchedStayArchived'
    OBVIOUS
  <2> QED
    BY <1>1, <2>1, <2>2, <2>3, <2>4, <2>5
<1>7. CASE DeleteBlog(b)
  BY <1>1, <1>7 DEF DeleteBlog, IsEmpty, PostsOf
<1>8. CASE RefuseDeleteBlog(b)
  BY <1>1, <1>8 DEF RefuseDeleteBlog
<1> QED
  BY <1>2, <1>3, <1>4, <1>5, <1>6, <1>7, <1>8 DEF BlogVerb

\* The verbs on posts keep the invariant.
LEMMA PostVerbIInv ==
  ASSUME IInv, NEW p \in Posts, PostVerb(p)
  PROVE  IInv'
<1> USE NoneAssumption DEF IInv
<1>1. TypeOK'
  BY NextTypeOK DEF Next
<1> USE DEF TypeOK, AbsentPostsBlank, PostsBelong, MarkerInForce, CascadeRestorable,
            UntouchedStayArchived, PostExists, BlogExists, blogVars, rowVars
<1>2. ASSUME NEW b \in Blogs, CreatePost(p, b) PROVE IInv'
  BY <1>1, <1>2 DEF CreatePost, DerivedSite
<1>3. CASE PatchPost(p)
  BY <1>1, <1>3 DEF PatchPost
<1>4. CASE RefuseFencedPatch(p)
  BY <1>1, <1>4 DEF RefuseFencedPatch
<1>5. CASE PublishPost(p)
  BY <1>1, <1>5 DEF PublishPost
<1>6. CASE UnpublishPost(p)
  BY <1>1, <1>6 DEF UnpublishPost
<1>7. CASE ArchivePost(p)
  <2>1. AbsentPostsBlank' /\ PostsBelong' /\ MarkerInForce'
    BY <1>7 DEF ArchivePost
  <2>2. CascadeRestorable'
    BY <1>7 DEF ArchivePost
  <2>3. UntouchedStayArchived'
    BY <1>7 DEF ArchivePost
  <2> QED
    BY <1>1, <2>1, <2>2, <2>3
<1>8. CASE UnarchivePost(p)
  BY <1>1, <1>8 DEF UnarchivePost
<1>9. CASE PublishAgain(p) \/ UnpublishAgain(p) \/ ArchiveAgain(p)
  BY <1>1, <1>9 DEF PublishAgain, UnpublishAgain, ArchiveAgain, NothingWritten
<1> QED
  BY <1>2, <1>3, <1>4, <1>5, <1>6, <1>7, <1>8, <1>9 DEF PostVerb

\* The invariant holds in every reachable state.
THEOREM Invariance == Spec => []IInv
<1>1. Init => IInv
  BY NoneAssumption DEF Init, IInv, TypeOK, AbsentPostsBlank, PostsBelong,
     MarkerInForce, CascadeRestorable, UntouchedStayArchived, PostExists
<1>2. IInv /\ [Next]_vars => IInv'
  <2>1. CASE UNCHANGED vars
    BY <2>1 DEF vars, IInv, TypeOK, AbsentPostsBlank, PostsBelong, MarkerInForce,
       CascadeRestorable, UntouchedStayArchived, PostExists, BlogExists
  <2> QED
    BY <2>1, BlogVerbIInv, PostVerbIInv DEF Next
<1> QED
  BY <1>1, <1>2, PTL DEF Spec

\* Posts belong to existing blogs of the same website, for any number of them.
THEOREM PostsAlwaysBelong == Spec => []PostsBelong
BY Invariance, PTL DEF IInv

\* Every marker names the post's own, archived blog.
THEOREM MarkersAlwaysInForce == Spec => []MarkerInForce
BY Invariance, PTL DEF IInv

\* No cascade strands a post: what a cascade archived, the blog's unarchive finds.
THEOREM CascadesAlwaysRestorable == Spec => []CascadeRestorable
BY Invariance, PTL DEF IInv

\* The posts of an archived blog stay archived until they are unarchived singly.
THEOREM ArchivedBlogsHoldTheirPosts == Spec => []UntouchedStayArchived
BY Invariance, PTL DEF IInv

-----------------------------------------------------------------------------
(* The editorial promise *)

\* Every verb is a step of the promise or leaves it alone.
LEMMA PromiseStep == IInv /\ [Next]_vars => [Promise!Next]_(Promise!vars)
<1> SUFFICES ASSUME IInv, [Next]_vars PROVE [Promise!Next]_(Promise!vars)
  OBVIOUS
<1> DEFINE approved == {q \in Posts : published[q]}
           shown == {q \in Posts : Visible(q)}
<1> USE DEF IInv, TypeOK, Visible, PostExists, blogVars, rowVars
<1>1. UNCHANGED <<postBlog, published, archived>> => UNCHANGED <<approved, shown>>
  OBVIOUS
<1>2. ASSUME NEW b \in Blogs, BlogVerb(b) PROVE [Promise!Next]_(Promise!vars)
  <2>1. CASE ArchiveBlog(b)
    <3> DEFINE hit == CascadeTargets(b)
    <3>1. hit \in SUBSET Posts
      BY DEF CascadeTargets, PostsOf
    <3>2. approved' = approved \ hit
      BY <2>1, <3>1 DEF ArchiveBlog, FlagsAfterCascade
    <3>3. shown' = shown \ hit
      BY <2>1, <3>1 DEF ArchiveBlog, FlagsAfterCascade
    <3> QED
      BY <3>1, <3>2, <3>3 DEF Promise!Next, Promise!Withdraw
  <2>2. CASE UnarchiveBlog(b)
    <3> DEFINE back == {q \in RestoreTargets(b) : published[q] /\ PostExists(q)}
    <3>1. back \in SUBSET Posts /\ back \subseteq approved
      BY DEF RestoreTargets
    <3>2. approved' = approved
      BY <2>2 DEF UnarchiveBlog, FlagsAfterRestore
    <3>3. shown' = shown \cup back
      BY <2>2 DEF UnarchiveBlog, FlagsAfterRestore, RestoreTargets
    <3> QED
      BY <3>1, <3>2, <3>3 DEF Promise!Next, Promise!Reveal
  <2>3. ASSUME ~ArchiveBlog(b), ~UnarchiveBlog(b)
        PROVE  UNCHANGED <<postBlog, published, archived>>
    BY <1>2, <2>3 DEF BlogVerb, CreateBlog, MoveBlog, PatchBlog, DeleteBlog, RefuseDeleteBlog
  <2> QED
    BY <1>1, <2>1, <2>2, <2>3 DEF Promise!vars
<1>3. ASSUME NEW p \in Posts, PostVerb(p) PROVE [Promise!Next]_(Promise!vars)
  <2>1. ASSUME NEW b \in Blogs, CreatePost(p, b) PROVE [Promise!Next]_(Promise!vars)
    <3>1. ~published[p]
      BY <2>1 DEF CreatePost, AbsentPostsBlank
    <3>2. UNCHANGED <<approved, shown>>
      BY <2>1, <3>1 DEF CreatePost
    <3> QED
      BY <3>2 DEF Promise!vars
  <2>2. CASE PublishPost(p)
    <3>1. p \notin approved /\ approved' = approved \cup {p}
      BY <2>2 DEF PublishPost, AlreadyPublished
    <3>2. shown' = IF archived[p] THEN shown ELSE shown \cup {p}
      BY <2>2 DEF PublishPost
    <3> QED
      BY <3>1, <3>2 DEF Promise!Next, Promise!Approve
  <2>3. CASE UnpublishPost(p) \/ ArchivePost(p)
    <3>1. approved' = approved \ {p} /\ shown' = shown \ {p}
      BY <2>3 DEF UnpublishPost, ArchivePost
    <3> QED
      BY <3>1 DEF Promise!Next, Promise!Withdraw
  <2>4. CASE UnarchivePost(p)
    <3> DEFINE back == IF published[p] THEN {p} ELSE {}
    <3>1. back \in SUBSET Posts /\ back \subseteq approved
      OBVIOUS
    <3>2. approved' = approved /\ shown' = shown \cup back
      BY <2>4 DEF UnarchivePost
    <3> QED
      BY <3>1, <3>2 DEF Promise!Next, Promise!Reveal
  <2>5. CASE PatchPost(p) \/ RefuseFencedPatch(p)
    BY <1>1, <2>5 DEF PatchPost, RefuseFencedPatch, Promise!vars
  <2>6. CASE PublishAgain(p) \/ UnpublishAgain(p) \/ ArchiveAgain(p)
    BY <1>1, <2>6 DEF PublishAgain, UnpublishAgain, ArchiveAgain, NothingWritten, Promise!vars
  <2> QED
    BY <1>3, <2>1, <2>2, <2>3, <2>4, <2>5, <2>6 DEF PostVerb
<1>4. CASE UNCHANGED vars
  BY <1>1, <1>4 DEF vars, Promise!vars
<1> QED
  BY <1>2, <1>3, <1>4 DEF Next

\* The verbs implement the promise: a post is shown only under a publication
\* in force and leaves the view only when that is withdrawn.
THEOREM PromiseKept == Spec => KeepsEditorialPromise
<1>1. Init => Promise!Init
  BY DEF Init, Promise!Init, Visible, PostExists
<1> QED
  BY <1>1, PromiseStep, Invariance, PTL DEF Spec, KeepsEditorialPromise, Promise!Spec

-----------------------------------------------------------------------------
(* The audit trail *)

\* One step of FlagAudited.
FlagAuditedStep ==
  \A p \in Posts :
    /\ (~published[p] /\ published'[p]) <=> (PostFact("post_published", p, {}) \in emitted')
    /\ published[p] /\ ~published'[p] => \E f \in emitted' : Withdraws(f, p)

\* Every verb that moves a publication flag says so in its audit rows.
LEMMA FlagStepAudited == TypeOK /\ Next => FlagAuditedStep
<1> SUFFICES ASSUME TypeOK, Next PROVE FlagAuditedStep
  OBVIOUS
<1> USE DEF TypeOK, FlagAuditedStep, PostFact, BlogFact, blogVars, rowVars
<1>1. ASSUME UNCHANGED published, \A f \in emitted' : f.event # "post_published"
      PROVE  FlagAuditedStep
  BY <1>1
<1>2. ASSUME NEW b \in Blogs, BlogVerb(b) PROVE FlagAuditedStep
  <2>1. CASE ArchiveBlog(b)
    BY <2>1 DEF ArchiveBlog, FlagsAfterCascade, CascadeTargets, PostsOf, Withdraws
  <2>2. CASE UnarchiveBlog(b)
    BY <2>2 DEF UnarchiveBlog, FlagsAfterRestore
  <2>3. ASSUME NEW s \in Sites, CreateBlog(b, s) \/ MoveBlog(b, s) PROVE FlagAuditedStep
    <3>1. UNCHANGED published
      BY <2>3 DEF CreateBlog, MoveBlog
    <3>2. \A f \in emitted' : f.event # "post_published"
      BY <2>3 DEF CreateBlog, MoveBlog
    <3> QED
      BY <1>1, <3>1, <3>2
  <2>4. CASE PatchBlog(b) \/ RefuseDeleteBlog(b)
    <3>1. UNCHANGED published
      BY <2>4 DEF PatchBlog, RefuseDeleteBlog
    <3>2. \A f \in emitted' : f.event # "post_published"
      BY <2>4 DEF PatchBlog, RefuseDeleteBlog
    <3> QED
      BY <1>1, <3>1, <3>2
  <2>5. CASE DeleteBlog(b)
    BY <1>1, <2>5 DEF DeleteBlog
  <2> QED
    BY <1>2, <2>1, <2>2, <2>3, <2>4, <2>5 DEF BlogVerb
<1>3. ASSUME NEW p \in Posts, PostVerb(p) PROVE FlagAuditedStep
  <2>1. CASE PublishPost(p)
    BY <2>1 DEF PublishPost, AlreadyPublished
  <2>2. CASE UnpublishPost(p)
    BY <2>2 DEF UnpublishPost, Withdraws
  <2>3. CASE ArchivePost(p)
    BY <2>3 DEF ArchivePost, Withdraws
  <2>4. ASSUME NEW b \in Blogs, CreatePost(p, b) PROVE FlagAuditedStep
    BY <1>1, <2>4 DEF CreatePost
  <2>5. CASE PatchPost(p) \/ RefuseFencedPatch(p) \/ UnarchivePost(p)
    <3>1. UNCHANGED published
      BY <2>5 DEF PatchPost, RefuseFencedPatch, UnarchivePost
    <3>2. \A f \in emitted' : f.event # "post_published"
      BY <2>5 DEF PatchPost, RefuseFencedPatch, UnarchivePost
    <3> QED
      BY <1>1, <3>1, <3>2
  <2>6. CASE PublishAgain(p) \/ UnpublishAgain(p) \/ ArchiveAgain(p)
    BY <1>1, <2>6 DEF PublishAgain, UnpublishAgain, ArchiveAgain, NothingWritten
  <2> QED
    BY <1>3, <2>1, <2>2, <2>3, <2>4, <2>5, <2>6 DEF PostVerb
<1> QED
  BY <1>2, <1>3 DEF Next

\* The post_published row is the event: it is appended exactly when the flag
\* rises, and no flag falls unexplained.
THEOREM AuditTellsPublication == Spec => FlagAudited
<1>1. TypeOK /\ [Next]_vars => [FlagAuditedStep]_vars
  BY FlagStepAudited
<1> QED
  BY <1>1, TypeCorrect, PTL DEF Spec, FlagAudited, FlagAuditedStep

CascadeAuditedStep ==
  \A f \in emitted' :
    /\ f.event = "blog_archived" =>
         f.counted = {p \in Posts : ~archived[p] /\ archived'[p]}
    /\ f.event = "blog_unarchived" =>
         {p \in Posts : archived[p] /\ ~archived'[p]} \subseteq f.counted

\* The cascade's row counts what it archived, the restore's no less than what
\* came back, and no other row passes for one of them.
LEMMA CascadeStepAudited == TypeOK /\ Next => CascadeAuditedStep
<1> SUFFICES ASSUME TypeOK, Next PROVE CascadeAuditedStep
  OBVIOUS
<1>1. ASSUME \A f \in emitted' : f.event \notin {"blog_archived", "blog_unarchived"}
      PROVE  CascadeAuditedStep
  BY <1>1 DEF CascadeAuditedStep
<1>2. ASSUME NEW b \in Blogs, BlogVerb(b) PROVE CascadeAuditedStep
  <2>1. CASE ArchiveBlog(b)
    <3>1. /\ archived' = [p \in Posts |-> archived[p] \/ p \in CascadeTargets(b)]
          /\ \A f \in emitted' : f.event = "blog_archived" /\ f.counted = CascadeTargets(b)
      BY <2>1 DEF ArchiveBlog, BlogFact
    <3>2. CascadeTargets(b) = {p \in Posts : ~archived[p] /\ archived'[p]}
      BY <3>1 DEF CascadeTargets, PostsOf
    <3> QED
      BY <3>1, <3>2 DEF CascadeAuditedStep
  <2>2. CASE UnarchiveBlog(b)
    <3>1. /\ archived' = [p \in Posts |-> archived[p] /\ p \notin RestoreTargets(b)]
          /\ \A f \in emitted' : f.event = "blog_unarchived" /\ f.counted = RestoreTargets(b)
      BY <2>2 DEF UnarchiveBlog, BlogFact
    <3>2. {p \in Posts : archived[p] /\ ~archived'[p]} \subseteq RestoreTargets(b)
      BY <3>1
    <3> QED
      BY <3>1, <3>2 DEF CascadeAuditedStep
  <2>3. ASSUME NEW s \in Sites, CreateBlog(b, s) \/ MoveBlog(b, s) PROVE CascadeAuditedStep
    BY <1>1, <2>3 DEF CreateBlog, MoveBlog, BlogFact
  <2>4. CASE PatchBlog(b) \/ RefuseDeleteBlog(b) \/ DeleteBlog(b)
    BY <1>1, <2>4 DEF PatchBlog, RefuseDeleteBlog, DeleteBlog, BlogFact
  <2> QED
    BY <1>2, <2>1, <2>2, <2>3, <2>4 DEF BlogVerb
<1>3. ASSUME NEW p \in Posts, PostVerb(p) PROVE CascadeAuditedStep
  <2>1. \A f \in emitted' : f.event \notin {"blog_archived", "blog_unarchived"}
    BY <1>3 DEF PostVerb, PostFact, CreatePost, PatchPost, RefuseFencedPatch, PublishPost,
                UnpublishPost, ArchivePost, UnarchivePost, PublishAgain, UnpublishAgain,
                ArchiveAgain, NothingWritten
  <2> QED
    BY <1>1, <2>1
<1> QED
  BY <1>2, <1>3 DEF Next

\* posts_cascade counts the posts that went from live to archived, and every
\* post that came back is among those posts_restored counts.
THEOREM AuditCountsCascades == Spec => CascadeAudited
<1>1. TypeOK /\ [Next]_vars => [CascadeAuditedStep]_vars
  BY CascadeStepAudited
<1> QED
  BY <1>1, TypeCorrect, PTL DEF Spec, CascadeAudited, CascadeAuditedStep

=============================================================================
