---------------------------- MODULE VersionReload ----------------------------
(***************************************************************************)
(* Browsers that have pages of the site open while new builds are deployed *)
(* (rust-server/build_helpers/version_script.rs, version_hash.rs and       *)
(* version_headers.rs, the caching headers of asset_metadata.rs and the    *)
(* 304 of handlers.rs).                                                    *)
(*                                                                         *)
(* A build is a program with its version and its files.  During a deploy   *)
(* the old process and the new one may both answer: the old one while it   *)
(* drains, on connections that are still open.  Browsers keep pages for an *)
(* hour and everything else for good.  A page polls /v and, if another     *)
(* version answers, fetches itself past the cache and reloads.             *)
(*                                                                         *)
(* A request is answered in one step by some live process.  The digests in *)
(* a page are those of its own build (Site), so a browser refuses a script *)
(* with another body; without SRI it runs it.                              *)
(***************************************************************************)
EXTENDS Naturals, FiniteSets

CONSTANTS
    Builds,   \* the builds that may be deployed
    Tabs,     \* the tabs, of one browser
    Pages,    \* the paths of pages
    Scripts,  \* the names of scripts, styles and images: all pages use them
    Bodies,   \* what may be under such a name
    Absent,   \* there is no such file, the 404 page answers
    Sites,    \* what a build may be of: the pages that poll, the scripts
    None      \* no build: nothing cached, nothing fetched

ASSUME VersionReloadAssumption ==
    /\ None \notin Builds \cup Pages
    /\ Sites \subseteq [polls : SUBSET Pages, body : [Scripts -> Bodies \cup {Absent}]]
    /\ Pages \cap Scripts = {}

Files == Pages \cup Scripts

VARIABLES
    site,     \* per build: what it is of
    live,     \* the builds whose process answers requests
    cached,   \* per file: the build whose answer the browser keeps, or None
    fresh,    \* the cached files that are used without asking
    shown,    \* per tab: the page, its build, and was it read from the cache
    got,      \* per tab and script: the build it came from, or None
    pending   \* per tab: what the page's version check waits for

vars == <<site, live, cached, fresh, shown, got, pending>>

tabVars == <<shown, got, pending>>

Blank == [page |-> None, build |-> None, cached |-> FALSE]

-----------------------------------------------------------------------------
(* What builds answer.                                                     *)

(* Mutant: a hash of the day only, or of what every build has.             *)
VersionCoarse(b) == "same"

(* compute_version_hash: a hash of the time of the build.                  *)
Version(b) == b

(* The page polls if its source has a </body>.  The 404 page of a build    *)
(* that has no such page may be one that does not, as the inline one.      *)
Polls(b, p) == p \in site[b].polls

Body(b, x) == site[b].body[x]

(* "immutable" for a year, which is for good.  The answer for a file that  *)
(* is not there is a page.                                                 *)
Immutable(b, f) == f \in Scripts /\ Body(b, f) # Absent

(* Mutant: any If-None-Match is a match.                                   *)
IsNotModifiedMutant(s, b) == TRUE

(* is_not_modified: the request has the etag of an answer of build b, and  *)
(* s answers.  The path is not looked at.                                  *)
IsNotModified(s, b) == Version(b) = Version(s)

-----------------------------------------------------------------------------
(* No process, no cache, no tabs.                                          *)
Init ==
    /\ site \in [Builds -> Sites]
    /\ live = {}
    /\ cached = [f \in Files |-> None]
    /\ fresh = {}
    /\ shown = [t \in Tabs |-> Blank]
    /\ got = [t \in Tabs |-> [x \in Scripts |-> None]]
    /\ pending = [t \in Tabs |-> {}]

(* Deploys.  An old build may come back.                                   *)
Start(b) ==
    /\ b \notin live
    /\ live' = live \cup {b}
    /\ UNCHANGED <<site, cached, fresh, tabVars>>

Stop(b) ==
    /\ b \in live
    /\ live' = live \ {b}
    /\ UNCHANGED <<site, cached, fresh, tabVars>>

-----------------------------------------------------------------------------
(* The cache.                                                              *)

(* An answer is kept with its max-age.                                     *)
Keep(f, s) ==
    /\ cached' = [cached EXCEPT ![f] = s]
    /\ fresh' = fresh \cup {f}

(* not_modified_response says no-cache and no-store: the entry is what it  *)
(* was, but will not be used again without asking.                         *)
Confirm(f) ==
    /\ cached' = cached
    /\ fresh' = fresh \ {f}

(* An hour has passed.                                                     *)
Expire(f) ==
    /\ f \in fresh
    /\ ~ Immutable(cached[f], f)
    /\ fresh' = fresh \ {f}
    /\ UNCHANGED <<site, live, cached, tabVars>>

(* Browsers may forget anything.                                           *)
Evict(f) ==
    /\ cached[f] # None
    /\ cached' = [cached EXCEPT ![f] = None]
    /\ fresh' = fresh \ {f}
    /\ UNCHANGED <<site, live, tabVars>>

(* s is asked for f, with the etag of what is cached, if anything is.      *)
Confirms(f, s) == cached[f] # None /\ IsNotModified(s, cached[f])

Ask(f, s) == IF Confirms(f, s) THEN Confirm(f) ELSE Keep(f, s)

(* The build whose answer the browser then has.                            *)
Answer(f, s) == IF Confirms(f, s) THEN cached[f] ELSE s

-----------------------------------------------------------------------------
(* Tabs.                                                                   *)

(* Mutant: what the document before waited for goes on.                    *)
DocumentGoesOn(t, p, b, fromCache) ==
    /\ shown' = [shown EXCEPT ![t] = [page |-> p, build |-> b, cached |-> fromCache]]
    /\ got' = [got EXCEPT ![t] = [x \in Scripts |-> None]]
    /\ UNCHANGED pending

(* A document replaces the one before, with all that this one waited for.  *)
(* One that came from the cache (transferSize is 0) checks at once.        *)
Document(t, p, b, fromCache) ==
    /\ shown' = [shown EXCEPT ![t] = [page |-> p, build |-> b, cached |-> fromCache]]
    /\ got' = [got EXCEPT ![t] = [x \in Scripts |-> None]]
    /\ pending' = [pending EXCEPT ![t] =
           IF fromCache /\ Polls(b, p) THEN {"version"} ELSE {}]

(* The user opens the page.                                                *)
Visit(t, p) ==
    /\ \/ /\ p \in fresh
          /\ Document(t, p, cached[p], TRUE)
          /\ UNCHANGED <<cached, fresh>>
       \/ /\ p \notin fresh
          /\ \E s \in live : Ask(p, s) /\ Document(t, p, Answer(p, s), FALSE)
    /\ UNCHANGED <<site, live>>

(* The page is loaded again, and the server asked whatever the cache says. *)
Reload(t) ==
    LET p == shown[t].page
    IN  /\ p # None
        /\ \E s \in live : Ask(p, s) /\ Document(t, p, Answer(p, s), FALSE)
        /\ UNCHANGED <<site, live>>

(* The document is not to be had: the browser shows an error.              *)
Fail(t) ==
    /\ shown' = [shown EXCEPT ![t] = Blank]
    /\ got' = [got EXCEPT ![t] = [x \in Scripts |-> None]]
    /\ pending' = [pending EXCEPT ![t] = {}]
    /\ UNCHANGED <<site, live, cached, fresh>>

(* A script, style or image of the document, after a reload too: from the  *)
(* cache if it may be.                                                     *)
LoadScript(t, x) ==
    /\ shown[t] # Blank
    /\ Body(shown[t].build, x) # Absent
    /\ got[t][x] = None
    /\ \/ /\ x \in fresh
          /\ got' = [got EXCEPT ![t][x] = cached[x]]
          /\ UNCHANGED <<cached, fresh>>
       \/ /\ x \notin fresh
          /\ \E s \in live :
                Ask(x, s) /\ got' = [got EXCEPT ![t][x] = Answer(x, s)]
    /\ UNCHANGED <<site, live, shown, pending>>

-----------------------------------------------------------------------------
(* The version script of the page.                                         *)

Without(t, step) == pending' = [pending EXCEPT ![t] = @ \ {step}]
Then(t, step, next) == pending' = [pending EXCEPT ![t] = (@ \ {step}) \cup {next}]

(* setInterval: once a minute, whether the last check is over or not.      *)
Tick(t) ==
    /\ shown[t] # Blank
    /\ Polls(shown[t].build, shown[t].page)
    /\ pending' = [pending EXCEPT ![t] = @ \cup {"version"}]
    /\ UNCHANGED <<site, live, cached, fresh, shown, got>>

(* /v, never cached: 304 if s is of the page's version, and nothing to do. *)
Answered(t, s) ==
    IF IsNotModified(s, shown[t].build)
    THEN Without(t, "version")
    ELSE Then(t, "version", "refetch")

CheckVersion(t) ==
    /\ "version" \in pending[t]
    /\ \E s \in live : Answered(t, s)
    /\ UNCHANGED <<site, live, cached, fresh, shown, got>>

(* fetch(location.href, {cache: "reload"}), without etag, whatever the     *)
(* status of the answer.                                                   *)
Refetch(t) ==
    /\ "refetch" \in pending[t]
    /\ \E s \in live : Keep(shown[t].page, s)
    /\ Then(t, "refetch", "reload")
    /\ UNCHANGED <<site, live, shown, got>>

(* .then(() => location.reload())                                          *)
ReloadItself(t) == "reload" \in pending[t] /\ Reload(t)

ReloadByUser(t) == "reload" \notin pending[t] /\ Reload(t)

(* A request of the check fails, and the check with it.                    *)
CheckFails(t) ==
    /\ \E step \in pending[t] \cap {"version", "refetch"} : Without(t, step)
    /\ UNCHANGED <<site, live, cached, fresh, shown, got>>

-----------------------------------------------------------------------------
Deploy == \E b \in Builds : Start(b) \/ Stop(b)

User == \E t \in Tabs : ReloadByUser(t) \/ Fail(t) \/ \E p \in Pages : Visit(t, p)

Check(t) == CheckVersion(t) \/ Refetch(t) \/ ReloadItself(t)

Next ==
    \/ Deploy
    \/ User
    \/ \E f \in Files : Expire(f) \/ Evict(f)
    \/ \E t \in Tabs :
          \/ \E x \in Scripts : LoadScript(t, x)
          \/ Tick(t)
          \/ Check(t)
          \/ CheckFails(t)

Spec == Init /\ [][Next]_vars

(* Browsers run the timers of pages, and requests are answered in the end  *)
(* while a process is there to do it.                                      *)
BrowserFairness ==
    \A t \in Tabs :
        /\ WF_vars(Tick(t))
        /\ SF_vars(CheckVersion(t))
        /\ SF_vars(Refetch(t))
        /\ SF_vars(ReloadItself(t))

FairSpec == Spec /\ BrowserFairness

-----------------------------------------------------------------------------
(* Properties.                                                             *)

(* Every variable has its type, only what is cached is fresh, and only a   *)
(* document that polls waits for answers.                                  *)
TypeOK ==
    /\ site \in [Builds -> Sites]
    /\ live \subseteq Builds
    /\ cached \in [Files -> Builds \cup {None}]
    /\ fresh \subseteq {f \in Files : cached[f] # None}
    /\ shown \in [Tabs -> [page : Pages, build : Builds, cached : BOOLEAN] \cup {Blank}]
    /\ got \in [Tabs -> [Scripts -> Builds \cup {None}]]
    /\ pending \in [Tabs -> SUBSET {"version", "refetch", "reload"}]
    /\ \A t \in Tabs : pending[t] # {} =>
          shown[t] # Blank /\ Polls(shown[t].build, shown[t].page)

(* One tag stands for all files of a build and is compared before the path *)
(* is looked at.  Yet a document that was not read from the cache, be it   *)
(* sent anew or confirmed by a 304, is that of a build that answers now.   *)
AskedIsCurrent ==
    [][\A t \in Tabs :
          shown'[t] # shown[t] /\ shown'[t] # Blank /\ ~ shown'[t].cached =>
              shown'[t].build \in live]_vars

(* In the end b is the only build that answers.                            *)
Settled(b) == <>[](live = {b})

(* Users and failures leave the tabs alone in the end.                     *)
Undisturbed == <>[][~ User]_tabVars

(* After the last deploy, however builds were mixed before, rolled back or *)
(* half fetched, every tab comes to show the page of the build that stays, *)
(* and stays with it.  Only a page that does not poll, such as the inline  *)
(* 404 page, stays as it is.                                               *)
UpToDate ==
    Undisturbed =>
        \A b \in Builds : Settled(b) =>
            \A t \in Tabs :
                <>[](\/ shown[t] = Blank
                     \/ shown[t].build = b
                     \/ ~ Polls(shown[t].build, shown[t].page))

(* A build replaces another, and does not come back.                       *)
OneByOne ==
    /\ [](Cardinality(live) <= 1)
    /\ \A b \in Builds :
          [](b \in live => [](b \notin live => [](b \notin live)))

(* The scripts of the tab are those its page was built with.               *)
Matches(t) ==
    \A x \in Scripts :
        got[t][x] # None => Body(got[t][x], x) = Body(shown[t].build, x)

(* What README.md:14-15 says of a deploy: "every JS, CSS, and HTML file    *)
(* gets a content-hashed URL [...] enabling aggressive cache headers with  *)
(* immutable fingerprints", and pages are "automatically refreshing".  If  *)
(* deploys do not even overlap or go back, the page that stays in the end  *)
(* has the scripts it was built with.                                      *)
RefreshedWhole ==
    Undisturbed /\ OneByOne =>
        \A b \in Builds : Settled(b) =>
            \A t \in Tabs :
                <>[](\/ shown[t] = Blank
                     \/ ~ Polls(shown[t].build, shown[t].page)
                     \/ Matches(t))

=============================================================================
