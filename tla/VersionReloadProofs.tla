------------------------- MODULE VersionReloadProofs -------------------------
(***************************************************************************)
(* What holds of every deploy and every browser: the types, and that a     *)
(* document the server was asked for is that of a build that answers now.  *)
(*                                                                         *)
(* TypeOK is inductive.  AskedIsCurrent follows from it step by step: a    *)
(* document is replaced by Visit and Reload only, and a 304 confirms what  *)
(* is cached only if the versions, hence the builds, are the same.         *)
(***************************************************************************)
EXTENDS VersionReload, TLAPS

USE DEF tabVars, Files

-----------------------------------------------------------------------------
(* The types.                                                              *)

(* The initial state has its types.                                        *)
LEMMA InitTypes == Init => TypeOK
BY VersionReloadAssumption DEF Init, TypeOK, Blank

(* An answer that is kept, anew or confirmed, leaves the cache well typed. *)
LEMMA CacheTypes ==
    ASSUME TypeOK, NEW f \in Files, NEW s \in live,
           Keep(f, s) \/ (cached[f] # None /\ Confirm(f))
    PROVE  /\ cached' \in [Files -> Builds \cup {None}]
           /\ fresh' \subseteq {g \in Files : cached'[g] # None}
<1>1. CASE Keep(f, s)
    BY <1>1, VersionReloadAssumption DEF TypeOK, Keep
<1>2. CASE cached[f] # None /\ Confirm(f)
    BY <1>2 DEF TypeOK, Confirm
<1> QED BY <1>1, <1>2

(* A new document is well typed.                                           *)
LEMMA DocumentTypes ==
    ASSUME TypeOK, NEW t \in Tabs, NEW p \in Pages, NEW b \in Builds,
           NEW c \in BOOLEAN, Document(t, p, b, c), UNCHANGED site
    PROVE  /\ shown' \in [Tabs -> [page : Pages, build : Builds, cached : BOOLEAN] \cup {Blank}]
           /\ got' \in [Tabs -> [Scripts -> Builds \cup {None}]]
           /\ pending' \in [Tabs -> SUBSET {"version", "refetch", "reload"}]
           /\ \A u \in Tabs : pending'[u] # {} =>
                 shown'[u] # Blank /\ Polls(shown'[u].build, shown'[u].page)
<1> DEFINE d == [page |-> p, build |-> b, cached |-> c]
<1>1. d \in [page : Pages, build : Builds, cached : BOOLEAN]
    OBVIOUS
<1>2. d # Blank
    BY VersionReloadAssumption DEF Blank
<1>3. shown' = [shown EXCEPT ![t] = d]
    BY DEF Document
<1>4. shown' \in [Tabs -> [page : Pages, build : Builds, cached : BOOLEAN] \cup {Blank}]
    BY <1>1, <1>3 DEF TypeOK
<1>5. got' \in [Tabs -> [Scripts -> Builds \cup {None}]]
    BY DEF TypeOK, Document
<1>6. pending' \in [Tabs -> SUBSET {"version", "refetch", "reload"}]
    BY DEF TypeOK, Document
<1>7. ASSUME NEW u \in Tabs, pending'[u] # {}
      PROVE  shown'[u] # Blank /\ Polls(shown'[u].build, shown'[u].page)
  <2>1. CASE u = t
    <3>1. shown'[t] = d
        BY <1>3 DEF TypeOK
    <3>2. Polls(b, p)
        BY <1>7, <2>1 DEF TypeOK, Document
    <3> QED BY <2>1, <3>1, <3>2, <1>2
  <2>2. CASE u # t
    <3>1. shown'[u] = shown[u] /\ pending'[u] = pending[u]
        BY <2>2, <1>3 DEF TypeOK, Document
    <3> QED BY <3>1, <1>7 DEF TypeOK
  <2> QED BY <2>1, <2>2
<1> QED BY <1>4, <1>5, <1>6, <1>7

-----------------------------------------------------------------------------
(* Documents.                                                              *)

(* Asking s for f shows the answer of s, whether it says 304 or not.       *)
LEMMA AskShowsServer ==
    ASSUME TypeOK, NEW t \in Tabs, NEW p \in Pages, NEW s \in live,
           Ask(p, s), Document(t, p, Answer(p, s), FALSE)
    PROVE  /\ Document(t, p, s, FALSE)
           /\ Keep(p, s) \/ (cached[p] # None /\ Confirm(p))
BY DEF Ask, Answer, Confirms, IsNotModified, Version

(* The user opens a page.                                                  *)
LEMMA VisitShows ==
    ASSUME TypeOK, NEW t \in Tabs, NEW p \in Pages, Visit(t, p)
    PROVE  \/ /\ p \in fresh
              /\ Document(t, p, cached[p], TRUE)
              /\ UNCHANGED <<cached, fresh>>
           \/ \E s \in live :
                 /\ Document(t, p, s, FALSE)
                 /\ Keep(p, s) \/ (cached[p] # None /\ Confirm(p))
BY AskShowsServer DEF Visit

(* A page is loaded again.                                                 *)
LEMMA ReloadShows ==
    ASSUME TypeOK, NEW t \in Tabs, Reload(t)
    PROVE  /\ shown[t].page \in Pages
           /\ \E s \in live :
                 LET p == shown[t].page
                 IN  /\ Document(t, p, s, FALSE)
                     /\ Keep(p, s) \/ (cached[p] # None /\ Confirm(p))
<1>1. shown[t].page \in Pages
    BY DEF TypeOK, Reload, Blank
<1> QED BY <1>1, AskShowsServer DEF Reload

-----------------------------------------------------------------------------
(* The type invariant.                                                     *)

(* A step that replaces the document of a tab keeps the types.             *)
LEMMA DocumentKeepsTypes ==
    ASSUME TypeOK, NEW t \in Tabs, NEW p \in Pages, NEW s \in live,
           Document(t, p, s, FALSE),
           Keep(p, s) \/ (cached[p] # None /\ Confirm(p)),
           UNCHANGED <<site, live>>
    PROVE  TypeOK'
<1>1. s \in Builds
    BY DEF TypeOK
<1>2. /\ cached' \in [Files -> Builds \cup {None}]
      /\ fresh' \subseteq {g \in Files : cached'[g] # None}
    BY CacheTypes
<1> HIDE DEF Files
<1> QED BY <1>1, <1>2, DocumentTypes DEF TypeOK, Polls

(* The user opens a page.                                                  *)
LEMMA VisitTypes ==
    ASSUME TypeOK, NEW t \in Tabs, NEW p \in Pages, Visit(t, p)
    PROVE  TypeOK'
<1>1. UNCHANGED <<site, live>>
    BY DEF Visit
<1>2. CASE p \in fresh /\ Document(t, p, cached[p], TRUE) /\ UNCHANGED <<cached, fresh>>
    <2>1. cached[p] \in Builds
        BY <1>2 DEF TypeOK
    <2> QED BY <1>1, <1>2, <2>1, DocumentTypes DEF TypeOK, Polls
<1>3. CASE \E s \in live :
              /\ Document(t, p, s, FALSE)
              /\ Keep(p, s) \/ (cached[p] # None /\ Confirm(p))
    BY <1>1, <1>3, DocumentKeepsTypes
<1> QED BY <1>2, <1>3, VisitShows

(* A page is loaded again, by the user or by itself.                       *)
LEMMA ReloadTypes ==
    ASSUME TypeOK, NEW t \in Tabs, Reload(t)
    PROVE  TypeOK'
<1>1. UNCHANGED <<site, live>>
    BY DEF Reload
<1> QED BY <1>1, ReloadShows, DocumentKeepsTypes

(* A script of a document is loaded.                                       *)
LEMMA LoadScriptTypes ==
    ASSUME TypeOK, NEW t \in Tabs, NEW x \in Scripts, LoadScript(t, x)
    PROVE  TypeOK'
<1>1. CASE x \in fresh /\ got' = [got EXCEPT ![t][x] = cached[x]] /\ UNCHANGED <<cached, fresh>>
    BY <1>1 DEF TypeOK, LoadScript, Polls
<1>2. CASE \E s \in live :
              Ask(x, s) /\ got' = [got EXCEPT ![t][x] = Answer(x, s)]
    <2>1. PICK s \in live :
              Ask(x, s) /\ got' = [got EXCEPT ![t][x] = Answer(x, s)]
        BY <1>2
    <2>2. /\ got' = [got EXCEPT ![t][x] = s]
          /\ Keep(x, s) \/ (cached[x] # None /\ Confirm(x))
        BY <2>1 DEF Ask, Answer, Confirms, IsNotModified, Version
    <2>3. /\ cached' \in [Files -> Builds \cup {None}]
          /\ fresh' \subseteq {g \in Files : cached'[g] # None}
        BY <2>2, CacheTypes
    <2>4. got' \in [Tabs -> [Scripts -> Builds \cup {None}]]
        BY <2>2 DEF TypeOK
    <2> HIDE DEF Files
    <2> QED BY <2>3, <2>4 DEF TypeOK, LoadScript, Polls
<1> QED BY <1>1, <1>2 DEF LoadScript

(* The steps of the version check that are not a reload.                   *)
LEMMA CheckTypes ==
    ASSUME TypeOK, NEW t \in Tabs,
           Tick(t) \/ CheckVersion(t) \/ Refetch(t) \/ CheckFails(t)
    PROVE  TypeOK'
<1>1. CASE Tick(t)
    BY <1>1 DEF TypeOK, Tick, Polls
<1>2. CASE CheckVersion(t)
    <2>1. PICK s \in live : Answered(t, s)
        BY <1>2 DEF CheckVersion
    <2>2. Without(t, "version") \/ Then(t, "version", "refetch")
        BY <2>1 DEF Answered
    <2>3. /\ pending' \in [Tabs -> SUBSET {"version", "refetch", "reload"}]
          /\ \A u \in Tabs : pending'[u] # {} => pending[u] # {}
        BY <1>2, <2>2 DEF TypeOK, CheckVersion, Without, Then
    <2> QED BY <1>2, <2>3 DEF TypeOK, CheckVersion, Polls
<1>3. CASE Refetch(t)
    <2>1. shown[t] # Blank /\ Polls(shown[t].build, shown[t].page)
        BY <1>3 DEF TypeOK, Refetch
    <2>2. shown[t].page \in Files
        BY <2>1 DEF TypeOK
    <2>3. PICK s \in live : Keep(shown[t].page, s)
        BY <1>3 DEF Refetch
    <2>4. /\ cached' \in [Files -> Builds \cup {None}]
          /\ fresh' \subseteq {g \in Files : cached'[g] # None}
        BY <2>2, <2>3, CacheTypes
    <2>5. /\ pending' \in [Tabs -> SUBSET {"version", "refetch", "reload"}]
          /\ \A u \in Tabs : pending'[u] # {} => pending[u] # {}
        BY <1>3 DEF TypeOK, Refetch, Then
    <2> HIDE DEF Files
    <2> QED BY <1>3, <2>4, <2>5 DEF TypeOK, Refetch, Polls
<1>4. CASE CheckFails(t)
    BY <1>4 DEF TypeOK, CheckFails, Without, Polls
<1> QED BY <1>1, <1>2, <1>3, <1>4

(* Deploys, the cache's own steps, and failures.                           *)
LEMMA OtherTypes ==
    ASSUME TypeOK,
           \/ Deploy
           \/ \E f \in Files : Expire(f) \/ Evict(f)
           \/ \E t \in Tabs : Fail(t)
    PROVE  TypeOK'
<1>1. CASE Deploy
    BY <1>1 DEF TypeOK, Deploy, Start, Stop, Polls
<1>2. ASSUME NEW f \in Files, Expire(f)
      PROVE  TypeOK'
    BY <1>2 DEF TypeOK, Expire, Polls
<1>3. ASSUME NEW f \in Files, Evict(f)
      PROVE  TypeOK'
    BY <1>3 DEF TypeOK, Evict, Polls
<1>4. ASSUME NEW t \in Tabs, Fail(t)
      PROVE  TypeOK'
    BY <1>4 DEF TypeOK, Fail, Polls
<1> QED BY <1>1, <1>2, <1>3, <1>4

(* Every step keeps the types.                                             *)
LEMMA NextTypes == TypeOK /\ [Next]_vars => TypeOK'
<1> SUFFICES ASSUME TypeOK, [Next]_vars PROVE TypeOK'
    OBVIOUS
<1>1. CASE Deploy \/ \E f \in Files : Expire(f) \/ Evict(f)
    BY <1>1, OtherTypes
<1>2. CASE User
    BY <1>2, OtherTypes, VisitTypes, ReloadTypes DEF User, ReloadByUser
<1>3. ASSUME NEW t \in Tabs, NEW x \in Scripts, LoadScript(t, x)
      PROVE  TypeOK'
    BY <1>3, LoadScriptTypes
<1>4. ASSUME NEW t \in Tabs, Tick(t) \/ Check(t) \/ CheckFails(t)
      PROVE  TypeOK'
    BY <1>4, CheckTypes, ReloadTypes DEF Check, ReloadItself
<1>5. CASE UNCHANGED vars
    BY <1>5 DEF TypeOK, vars, Polls
<1> QED BY <1>1, <1>2, <1>3, <1>4, <1>5 DEF Next

(* Every variable has its type, whatever is deployed and whatever users    *)
(* and browsers do.                                                        *)
THEOREM VersionReloadTypes == Spec => []TypeOK
<1> QED BY InitTypes, NextTypes, PTL DEF Spec

-----------------------------------------------------------------------------
(* A document that was asked for.                                          *)

(* What AskedIsCurrent says of one step.                                   *)
AskedStep ==
    \A t \in Tabs :
        shown'[t] # shown[t] /\ shown'[t] # Blank /\ ~ shown'[t].cached =>
            shown'[t].build \in live

(* A document of s, which is live.                                         *)
LEMMA DocumentAsked ==
    ASSUME TypeOK, NEW t \in Tabs, NEW p \in Pages, NEW b, NEW c \in BOOLEAN,
           Document(t, p, b, c), c \/ b \in live
    PROVE  AskedStep
<1> DEFINE d == [page |-> p, build |-> b, cached |-> c]
<1>1. shown' = [shown EXCEPT ![t] = d]
    BY DEF Document
<1>2. ASSUME NEW u \in Tabs, shown'[u] # shown[u], ~ shown'[u].cached
      PROVE  shown'[u].build \in live
  <2>1. u = t /\ shown'[t] = d
      BY <1>1, <1>2 DEF TypeOK
  <2>2. ~ c /\ d.build = b
      BY <2>1, <1>2
  <2> QED BY <2>1, <2>2
<1> QED BY <1>2 DEF AskedStep

(* The user or the page itself gets a document.                            *)
LEMMA LoadAsked ==
    ASSUME TypeOK, NEW t \in Tabs, Reload(t) \/ \E p \in Pages : Visit(t, p)
    PROVE  AskedStep
<1>1. CASE Reload(t)
    <2> DEFINE q == shown[t].page
    <2>1. PICK s \in live : Document(t, q, s, FALSE)
        BY <1>1, ReloadShows
    <2>2. q \in Pages
        BY <1>1, ReloadShows
    <2> HIDE DEF q
    <2> QED BY <2>1, <2>2, DocumentAsked
<1>2. ASSUME NEW p \in Pages, Visit(t, p)
      PROVE  AskedStep
    BY <1>2, VisitShows, DocumentAsked
<1> QED BY <1>1, <1>2

(* Every other step leaves the documents, or takes one away.               *)
LEMMA NextAsked == TypeOK /\ [Next]_vars => AskedStep
<1> SUFFICES ASSUME TypeOK, [Next]_vars PROVE AskedStep
    OBVIOUS
<1>1. CASE Deploy \/ \E f \in Files : Expire(f) \/ Evict(f)
    BY <1>1 DEF AskedStep, Deploy, Start, Stop, Expire, Evict
<1>2. ASSUME NEW t \in Tabs, Fail(t)
      PROVE  AskedStep
    BY <1>2 DEF TypeOK, AskedStep, Fail
<1>3. CASE User
    BY <1>2, <1>3, LoadAsked DEF User, ReloadByUser
<1>4. ASSUME NEW t \in Tabs, ReloadItself(t)
      PROVE  AskedStep
    BY <1>4, LoadAsked DEF ReloadItself
<1>5. ASSUME NEW t \in Tabs,
             \/ \E x \in Scripts : LoadScript(t, x)
             \/ Tick(t) \/ CheckVersion(t) \/ Refetch(t) \/ CheckFails(t)
      PROVE  AskedStep
    BY <1>5 DEF AskedStep, LoadScript, Tick, CheckVersion, Refetch, CheckFails
<1>6. CASE UNCHANGED vars
    BY <1>6 DEF AskedStep, vars
<1> QED BY <1>1, <1>3, <1>4, <1>5, <1>6 DEF Next, Check

(* One version tag for all files of a build, compared before the path is   *)
(* looked at, never keeps a document that no live build would send.        *)
THEOREM AskedDocumentsAreCurrent == Spec => AskedIsCurrent
<1>1. TypeOK /\ [Next]_vars => [AskedStep]_vars
    BY NextAsked
<1>2. Spec => [][AskedStep]_vars
    BY <1>1, VersionReloadTypes, PTL DEF Spec
<1> QED BY <1>2 DEF AskedIsCurrent, AskedStep

-----------------------------------------------------------------------------
(* A tab catches up with the build that stays.                             *)

(* UpToDate asks for no more of t when b is the build that stays.          *)
Current(t, b) ==
    \/ shown[t] = Blank
    \/ shown[t].build = b
    \/ ~ Polls(shown[t].build, shown[t].page)

(* The user loads a page, or a document is not to be had.                  *)
OfUser(t) == ReloadByUser(t) \/ Fail(t) \/ \E p \in Pages : Visit(t, p)

(* What the check of t waits for is there still, or the step after it: an  *)
(* answer to /v is followed by the fetch, and the fetch by the reload.     *)
LeadsOn(t) ==
    /\ "version" \in pending[t] => pending'[t] \cap {"version", "refetch"} # {}
    /\ "refetch" \in pending[t] => pending'[t] \cap {"refetch", "reload"} # {}

(* With b the only build that answers, a tab that is current stays so; one *)
(* that is not keeps its page until it is current, and its check goes on,  *)
(* unless a request of it fails.  A reload that is due is never lost.      *)
CatchesUp(t, b) ==
    IF Current(t, b)
    THEN Current(t, b)'
    ELSE \/ Current(t, b)'
         \/ /\ shown'[t] = shown[t]
            /\ "reload" \in pending[t] => "reload" \in pending'[t]
            /\ LeadsOn(t) \/ CheckFails(t)

CatchingUpStep ==
    \A b \in Builds, t \in Tabs :
        live = {b} /\ (OfUser(t) => ReloadItself(t)) => CatchesUp(t, b)

CatchingUp == [][CatchingUpStep]_vars

(* A step that leaves the document and what its check waits for.           *)
LEMMA TabUntouched ==
    ASSUME NEW t \in Tabs, NEW b \in Builds,
           site' = site, shown'[t] = shown[t], pending[t] \subseteq pending'[t]
    PROVE  CatchesUp(t, b)
<1>1. Current(t, b)' <=> Current(t, b)
    BY DEF Current, Polls
<1>2. LeadsOn(t)
    BY DEF LeadsOn
<1> QED BY <1>1, <1>2 DEF CatchesUp

(* A reload shows what answers.                                            *)
LEMMA ReloadCatchesUp ==
    ASSUME TypeOK, NEW t \in Tabs, NEW b \in Builds, live = {b}, Reload(t)
    PROVE  CatchesUp(t, b)
<1>1. PICK p \in Pages : Document(t, p, b, FALSE)
    BY ReloadShows
<1>2. shown'[t] = [page |-> p, build |-> b, cached |-> FALSE]
    BY <1>1 DEF TypeOK, Document
<1>3. shown'[t].build = b
    BY <1>2
<1> QED BY <1>3 DEF CatchesUp, Current

(* The page of another build is told so, and goes on.                      *)
LEMMA CheckCatchesUp ==
    ASSUME TypeOK, NEW t \in Tabs, NEW b \in Builds, live = {b},
           CheckVersion(t) \/ Refetch(t) \/ CheckFails(t)
    PROVE  CatchesUp(t, b)
<1>1. site' = site /\ shown' = shown /\ pending \in [Tabs -> SUBSET {"version", "refetch", "reload"}]
    BY DEF TypeOK, CheckVersion, Refetch, CheckFails
<1>2. Current(t, b)' <=> Current(t, b)
    BY <1>1 DEF Current, Polls
<1>3. SUFFICES ASSUME ~ Current(t, b)
               PROVE  /\ "reload" \in pending[t] => "reload" \in pending'[t]
                      /\ LeadsOn(t) \/ CheckFails(t)
    BY <1>1, <1>2 DEF CatchesUp
<1>4. CASE CheckVersion(t)
  <2>1. ~ IsNotModified(b, shown[t].build)
      BY <1>3 DEF Current, IsNotModified, Version
  <2>2. Then(t, "version", "refetch")
      BY <1>4, <2>1 DEF CheckVersion, Answered
  <2>3. pending'[t] = (pending[t] \ {"version"}) \cup {"refetch"}
      BY <1>1, <2>2 DEF Then
  <2> QED BY <2>3 DEF LeadsOn
<1>5. CASE Refetch(t)
  <2>1. pending'[t] = (pending[t] \ {"refetch"}) \cup {"reload"}
      BY <1>1, <1>5 DEF Refetch, Then
  <2> QED BY <2>1 DEF LeadsOn
<1>6. CASE CheckFails(t)
  <2>1. PICK step \in {"version", "refetch"} : pending'[t] = pending[t] \ {step}
      BY <1>1, <1>6 DEF CheckFails, Without
  <2> QED BY <1>6, <2>1
<1> QED BY <1>4, <1>5, <1>6

(* What another tab does is nothing to this one.                           *)
LEMMA OtherTab ==
    ASSUME TypeOK, NEW t \in Tabs, NEW b \in Builds, NEW u \in Tabs \ {t},
           \/ ReloadByUser(u) \/ Fail(u) \/ (\E p \in Pages : Visit(u, p))
           \/ Tick(u) \/ Check(u) \/ CheckFails(u)
    PROVE  CatchesUp(t, b)
<1>1. site' = site
    BY DEF ReloadByUser, ReloadItself, Reload, Fail, Visit, Tick, Check,
           CheckVersion, Refetch, CheckFails
<1>2. ASSUME NEW p, NEW s, NEW c, Document(u, p, s, c)
      PROVE  shown'[t] = shown[t] /\ pending'[t] = pending[t]
    BY <1>2 DEF TypeOK, Document
<1>3. shown'[t] = shown[t] /\ pending'[t] = pending[t]
  <2>1. CASE ReloadByUser(u) \/ ReloadItself(u) \/ (\E p \in Pages : Visit(u, p))
      BY <1>2, <2>1 DEF ReloadByUser, ReloadItself, Reload, Visit
  <2>2. CASE Fail(u) \/ Tick(u)
      BY <2>2 DEF TypeOK, Fail, Tick
  <2>3. CASE CheckVersion(u) \/ Refetch(u) \/ CheckFails(u)
      BY <2>3 DEF TypeOK, CheckVersion, Answered, Refetch, CheckFails, Without, Then
  <2> QED BY <2>1, <2>2, <2>3 DEF Check
<1> QED BY <1>1, <1>3, TabUntouched

(* Every step that is not the user's.                                      *)
LEMMA NextCatchesUp == TypeOK /\ [Next]_vars => CatchingUpStep
<1> SUFFICES ASSUME TypeOK, [Next]_vars, NEW b \in Builds, NEW t \in Tabs,
                    live = {b}, OfUser(t) => ReloadItself(t)
             PROVE  CatchesUp(t, b)
    BY DEF CatchingUpStep
<1>1. CASE \/ Deploy \/ UNCHANGED vars
           \/ \E f \in Files : Expire(f) \/ Evict(f)
           \/ \E u \in Tabs : \E x \in Scripts : LoadScript(u, x)
    BY <1>1, TabUntouched DEF Deploy, Start, Stop, vars, Expire, Evict, LoadScript
<1>2. CASE ReloadItself(t)
    BY <1>2, ReloadCatchesUp DEF ReloadItself
<1>3. CASE CheckVersion(t) \/ Refetch(t) \/ CheckFails(t)
    BY <1>3, CheckCatchesUp
<1>4. CASE Tick(t)
  <2>1. site' = site /\ shown'[t] = shown[t] /\ pending[t] \subseteq pending'[t]
      BY <1>4 DEF TypeOK, Tick
  <2> QED BY <2>1, TabUntouched
<1>5. ASSUME NEW u \in Tabs \ {t},
             \/ ReloadByUser(u) \/ Fail(u) \/ (\E p \in Pages : Visit(u, p))
             \/ Tick(u) \/ Check(u) \/ CheckFails(u)
      PROVE  CatchesUp(t, b)
    BY <1>5, OtherTab
<1> QED BY <1>1, <1>2, <1>3, <1>4, <1>5 DEF Next, User, OfUser, Check

(* When one build is left to answer, the version check of a page of        *)
(* another ends in that build's page unless a request fails, and a page of *)
(* that build stays: the safety half of UpToDate.                          *)
THEOREM ChecksCatchUp == Spec => CatchingUp
<1>1. TypeOK /\ [Next]_vars => [CatchingUpStep]_vars
    BY NextCatchesUp
<1> QED BY <1>1, VersionReloadTypes, PTL DEF Spec, CatchingUp

=============================================================================
