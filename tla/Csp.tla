--------------------------------- MODULE Csp ---------------------------------
(***************************************************************************)
(* The content security policies of the pages of a site                    *)
(* (rust-server/build_helpers/csp.rs).                                     *)
(*                                                                         *)
(* The values of the directives are the same for all pages: the digests of *)
(* the files of each kind, taken when all passes over the files are done.  *)
(* A page gets a value, or 'none', by the words in its source.  There is   *)
(* no 'self' for scripts: a browser runs one if the digest in its tag is   *)
(* among those of the policy.                                              *)
(***************************************************************************)
EXTENDS Site

CONSTANT Mentions  \* per name: the directives csp.rs finds a word of in
                   \* the file, such as "stylesheet", "<img" or "font-"

Optional == {"style-src", "img-src", "font-src", "media-src"}

Directives == Optional \cup {"script-src"}

ASSUME CspAssumption == Mentions \in [Names -> SUBSET Optional]

-----------------------------------------------------------------------------
(* The directive for files of an extension.  It is for .mjs as for .js     *)
(* that browsers run scripts, but its digests are not collected.           *)
Extensions(d) ==
    CASE d = "script-src" -> {"js"}
      [] d = "style-src" -> {"css"}
      [] d = "img-src" -> {"png", "jpg", "jpeg", "gif", "svg", "webp", "ico"}
      [] d = "font-src" -> {"woff", "woff2", "ttf", "otf"}
      [] d = "media-src" -> {"mp3", "mp4", "webm", "ogg", "wav"}

IsOf(g, d) == HasExtension(g) /\ \E e \in Extensions(d) : Extension(g) = <<e>>

(* Mutant: the digests are those of the files in public/.                  *)
CollectHashesOfSources(d) == {Raw(g) : g \in {f \in DOMAIN hashes : IsOf(f, d)}}

CollectHashes(d) == {hashes[g] : g \in {f \in DOMAIN hashes : IsOf(f, d)}}

VersionScript == Raw(<<"version script">>)

Nothing == [self |-> FALSE, inline |-> FALSE, digests |-> {}]

(* build_csp_values, with ALLOW_INLINE_STYLES or without.                  *)
CspValue(d, inlineStyles) ==
    IF ~ sri
    THEN [self |-> TRUE, inline |-> d \in {"script-src", "style-src"}, digests |-> {}]
    ELSE IF d = "script-src"
    THEN [self |-> FALSE, inline |-> FALSE,
          digests |-> {VersionScript} \cup CollectHashes(d)]
    ELSE IF d = "style-src" /\ inlineStyles
    THEN [self |-> TRUE, inline |-> TRUE, digests |-> {}]
    ELSE [self |-> TRUE, inline |-> FALSE, digests |-> CollectHashes(d)]

(* build_csp_for_source                                                    *)
Policy(p, inlineStyles) ==
    [d \in Directives |->
        IF d = "script-src" \/ d \in Mentions[p]
        THEN CspValue(d, inlineStyles) ELSE Nothing]

(* Browsers: a tag that refers to g with these digests, and a script that  *)
(* is in the page itself.                                                  *)
AllowsFile(sources, digests) ==
    sources.self \/ (digests # {} /\ digests \subseteq sources.digests)

AllowsInline(sources, script) == sources.inline \/ script \in sources.digests

(* The digests in the tags of the page that refer to g.                    *)
Integrity(p, g) == {d[2] : d \in {x \in disk[p].integrity : x[1] = g}}

-----------------------------------------------------------------------------
(* Properties.                                                             *)

(* No page locks itself out: its policy, put together after the page was   *)
(* written and from other data than its tags, lets the version script run, *)
(* and every script, and every style, image, font or medium that its       *)
(* source mentions the kind of, that the page refers to; with SRI and      *)
(* without, whether styles may be inline or not.                           *)
PoliciesAllow ==
    Served =>
        \A p \in ToSet(files), inlineStyles \in BOOLEAN : IsPage(p) =>
            LET policy == Policy(p, inlineStyles)
            IN  /\ AllowsInline(policy["script-src"], VersionScript)
                /\ \A g \in Links[p] \cap ToSet(files), d \in {"script-src"} \cup Mentions[p] :
                      IsOf(g, d) => AllowsFile(policy[d], Integrity(p, g))

=============================================================================
