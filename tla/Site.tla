-------------------------------- MODULE Site --------------------------------
(***************************************************************************)
(* The build of a site (rust-server/build_helpers), up to the responses    *)
(* the generated program gives (response.rs).                              *)
(*                                                                         *)
(* The build script runs over the files of public/ in several passes, and  *)
(* its output directories in OUT_DIR are shared: by all files, and by the  *)
(* version asset.  The compiler reads them only when the script is done.   *)
(*                                                                         *)
(* A file name is a sequence of words and the separators / . - and _.  A   *)
(* content is a value; equal digests or lengths are those of equal         *)
(* contents.  The three output directories always get the same content,    *)
(* each in its coding.                                                     *)
(***************************************************************************)
EXTENDS Naturals, SequencesExt

CONSTANTS
    Sorted,        \* the names files may have, in the order of sort()
    Links,         \* per name: the names its content refers to by /name
    Upper,         \* to_uppercase, of a name's words and separators
    Numeric,       \* the words that begin with a digit
    NotFoundName,  \* NOT_FOUND_FILENAME
    EmbedChoices   \* the sets of compressions a build may embed

Names == ToSet(Sorted)

ASSUME SiteAssumption ==
    /\ Sorted \in Seq(ToSet(Sorted))
    /\ IsInjective(Sorted)
    /\ Links \in [Names -> SUBSET Names]
    /\ \A f \in Names : ToSet(f) \subseteq DOMAIN Upper
    /\ EmbedChoices \subseteq SUBSET {"br", "zstd", "gzip"}

(* No name is empty, and sort() puts it before the longer names it begins. *)
ASSUME NamesAssumption ==
    /\ \A f \in Names : f \in Seq(ToSet(f)) /\ f # <<>>
    /\ \A i, j \in DOMAIN Sorted : IsStrictPrefix(Sorted[i], Sorted[j]) => i < j

Encodings == {"identity", "br", "zstd", "gzip"}

-----------------------------------------------------------------------------
(* Names.                                                                  *)

(* The last place of sep in s, or 0.                                       *)
LastOf(s, sep) ==
    CHOOSE i \in 0 .. Len(s) :
        /\ i > 0 => s[i] = sep
        /\ \A j \in i + 1 .. Len(s) : s[j] # sep

FileName(f) == SubSeq(f, LastOf(f, "/") + 1, Len(f))

(* A name may begin with a dot.                                            *)
HasExtension(f) == LastOf(FileName(f), ".") > 1

Extension(f) == SubSeq(f, LastOf(f, ".") + 1, Len(f))

Stem(f) == SubSeq(FileName(f), 1, LastOf(FileName(f), ".") - 1)

IsPage(f) == HasExtension(f) /\ Extension(f) = <<"html">>

Path(f) == <<"/">> \o f

(* url_paths_for_file                                                      *)
Alias(f) == IF Stem(f) = <<"index">> THEN <<"/">> ELSE <<"/">> \o Stem(f)

UrlPaths(f) == IF IsPage(f) THEN <<Path(f), Alias(f)>> ELSE <<Path(f)>>

(* file_to_const                                                           *)
ConstPrefix(f) ==
    (IF f[1] \in Numeric THEN <<"F", "_">> ELSE <<>>)
        \o [i \in DOMAIN f |-> IF f[i] \in {"/", ".", "-"} THEN "_" ELSE Upper[f[i]]]

(* The prefixes of the assets that no file is needed for.                  *)
SpecialPrefixes == {<<"VERSION">>, <<"NOT", "_", "FOUND">>, <<"CHROME", "_", "DT">>}

VersionFile == <<"v", ".", "txt">>

-----------------------------------------------------------------------------
(* Contents: of a file, as it is in public/ or minified; of a page, with   *)
(* its integrity attributes: a digest each, for the files it refers to.    *)

Raw(f) == [of |-> f, minified |-> FALSE, integrity |-> {}]
Minified(f, integrity) == [of |-> f, minified |-> TRUE, integrity |-> integrity]

(* minify_file: scripts and styles, if their minifier can.                 *)
MinifyFile(f) ==
    IF HasExtension(f) /\ Extension(f) \in {<<"css">>, <<"js">>}
    THEN {Raw(f), Minified(f, {})}
    ELSE {Raw(f)}

VersionBody == Raw(<<"BUILD_VERSION">>)
InlineBody == Raw(<<"<h1>404 - Not Found</h1>">>)
EmptyBody == Raw(<<>>)

(* Something that is 30 bytes long, as InlineBody is not.                  *)
ThirtyBytes == Raw(<<"30 bytes">>)

VARIABLES
    files,  \* what is in public/, sorted
    embed,  \* the compressions to embed: EMBED_GZIP, ...
    sri,    \* is SRI on?  Not DISABLE_SRI
    pass,   \* what the build is doing
    at,     \* the file the pass is at
    disk,   \* per name: the content written under it to OUT_DIR
    hashes, \* file_hashes
    lens,   \* uncompressed_lens
    meta    \* per file: its lengths, as build_asset_metadata finds them

vars == <<files, embed, sri, pass, at, disk, hashes, lens, meta>>

(* What the build does when a loop over the files has ended.               *)
Following ==
    [collect |-> "assets", assets |-> "pages",
     pages |-> "metadata", metadata |-> "version"]

(* The HashMaps start empty.                                               *)
None == <<>>

Init ==
    /\ files = <<>>
    /\ embed \in EmbedChoices
    /\ sri \in BOOLEAN
    /\ pass = "collect"
    /\ at = 1
    /\ disk = None
    /\ hashes = None
    /\ lens = None
    /\ meta = <<>>

-----------------------------------------------------------------------------
(* The passes.                                                             *)

Put(map, f, v) == [g \in DOMAIN map \cup {f} |-> IF g = f THEN v ELSE map[g]]

File == files[at]

(* Mutant: the files stay as read_dir happens to list them.                *)
ListedBackwards == <<Sorted[at]>> \o files

Listed == Append(files, Sorted[at])

(* collect_source_files: the next name in the order of sort() is that of a *)
(* file of public/, or not.                                                *)
CollectFile ==
    /\ pass = "collect"
    /\ at <= Len(Sorted)
    /\ files' = Listed \/ UNCHANGED files
    /\ at' = at + 1
    /\ UNCHANGED <<embed, sri, pass, disk, hashes, lens, meta>>

(* The pass p is at a file; its round of the loop ends.                    *)
InPass(p) == pass = p /\ at <= Len(files)

NextFile == at' = at + 1 /\ UNCHANGED <<files, embed, sri, pass>>

(* What the pass goes over.                                                *)
Round == IF pass = "collect" THEN Sorted ELSE files

(* The loop of the pass has ended.                                         *)
AtEnd ==
    /\ pass \in DOMAIN Following
    /\ at > Len(Round)

(* Mutant: the next pass starts where the last one ended.                  *)
EndPassKeepingAt ==
    /\ AtEnd
    /\ pass' = Following[pass]
    /\ UNCHANGED <<files, embed, sri, at, disk, hashes, lens, meta>>

(* The next pass starts with the first file.                               *)
EndPass ==
    /\ AtEnd
    /\ pass' = Following[pass]
    /\ at' = 1
    /\ UNCHANGED <<files, embed, sri, disk, hashes, lens, meta>>

(* Mutants: the digest, or the length, is that of the unminified file.     *)
HashedRaw(f, body) == hashes' = Put(hashes, f, Raw(f))
MeasuredRaw(f, body) == lens' = Put(lens, f, Raw(f))

Hashed(f, body) == hashes' = Put(hashes, f, body)
Measured(f, body) == lens' = Put(lens, f, body)

(* The digest, the length and the three compressions of a content.         *)
Store(f, body) ==
    /\ Hashed(f, body)
    /\ Measured(f, body)
    /\ disk' = Put(disk, f, body)
    /\ UNCHANGED meta

(* minify_compute_sha_and_compress                                         *)
MinifyAsset ==
    /\ InPass("assets")
    /\ \/ IsPage(File) /\ UNCHANGED <<disk, hashes, lens, meta>>
       \/ /\ ~ IsPage(File)
          /\ \E body \in MinifyFile(File) : Store(File, body)
    /\ NextFile

(* What is known of the page's references goes into their tags.            *)
Injected(f) ==
    IF sri THEN {<<g, hashes[g]>> : g \in Links[f] \cap DOMAIN hashes} ELSE {}

(* update_html_sri_and_inject_update_js                                    *)
InjectPage ==
    /\ InPass("pages")
    /\ \/ ~ IsPage(File) /\ UNCHANGED <<disk, hashes, lens, meta>>
       \/ IsPage(File) /\ Store(File, Minified(File, Injected(File)))
    /\ NextFile

(* The length of a content, in a coding.                                   *)
Length(e, body) == <<e, body>>

(* build_asset_metadata: lengths of the files in OUT_DIR, and of the       *)
(* content that was put there.  A name without extension panics.           *)
CollectMetadata ==
    /\ InPass("metadata")
    /\ HasExtension(File)
    /\ meta' = Append(meta,
           [e \in Encodings |->
               Length(e, IF e = "identity" THEN lens[File] ELSE disk[File])])
    /\ UNCHANGED <<disk, hashes, lens>>
    /\ NextFile

MetadataPanics ==
    /\ InPass("metadata")
    /\ ~ HasExtension(File)
    /\ pass' = "failed"
    /\ UNCHANGED <<files, embed, sri, at, disk, hashes, lens, meta>>

(* Mutant: a file that is already there stays.                             *)
WriteVersionOnce ==
    disk' = IF VersionFile \in DOMAIN disk
            THEN disk ELSE Put(disk, VersionFile, VersionBody)

(* build_version_headers, which writes v.txt to OUT_DIR.                   *)
WriteVersion == disk' = Put(disk, VersionFile, VersionBody)

BuildVersion ==
    /\ pass = "version"
    /\ WriteVersion
    /\ pass' = "compile"
    /\ UNCHANGED <<files, embed, sri, at, hashes, lens, meta>>

(* The compiler includes the files of OUT_DIR into the generated source.   *)
(* It refuses two constants of one name.                                   *)
Compile ==
    /\ pass = "compile"
    /\ LET prefixes == [i \in DOMAIN files |-> ConstPrefix(files[i])]
       IN  pass' = IF /\ IsInjective(prefixes)
                      /\ ToSet(prefixes) \cap SpecialPrefixes = {}
                   THEN "served" ELSE "failed"
    /\ UNCHANGED <<files, embed, sri, at, disk, hashes, lens, meta>>

Next ==
    \/ CollectFile
    \/ MinifyAsset
    \/ InjectPage
    \/ CollectMetadata
    \/ MetadataPanics
    \/ EndPass
    \/ BuildVersion
    \/ Compile

Spec == Init /\ [][Next]_vars

-----------------------------------------------------------------------------
(* The assets of the generated program: per encoding a body, with the      *)
(* coding it really is in, and headers: content-length, content-encoding   *)
(* and the content that repr-digest is about, if there is one.             *)

Supported == embed \cup {"identity"}

(* write_per_encoding_header_arrays                                        *)
HeaderArrays(lengths, digest) ==
    [e \in Encodings |-> [length |-> lengths[e], coding |-> e, digest |-> digest]]

(* write_asset_constants, for one file.                                    *)
FileBodies(f) ==
    [e \in Encodings |->
        IF e \in Supported THEN <<e, disk[f]>> ELSE <<"identity", EmptyBody>>]

(* The asset of the file in position i.                                    *)
FileAsset(i) ==
    [file |-> files[i],
     body |-> FileBodies(files[i]),
     headers |-> HeaderArrays(meta[i], {hashes[files[i]]})]

(* All three compressions are embedded, whatever the flags say.            *)
VersionBodies == [e \in Encodings |-> <<e, disk[VersionFile]>>]

VersionAsset ==
    [file |-> <<"/", "v">>,
     body |-> VersionBodies,
     headers |-> HeaderArrays([e \in Encodings |-> Length(e, VersionBody)], {})]

Uncompressed(body) == [e \in Encodings |-> <<"identity", body>>]

(* Not compressed, with the headers of no compression; hyper computes the  *)
(* length.                                                                 *)
NotFoundFromFile ==
    [file |-> NotFoundName,
     body |-> Uncompressed(disk[NotFoundName]),
     headers |-> [e \in Encodings |->
         [length |-> Length("identity", disk[NotFoundName]),
          coding |-> "identity",
          digest |-> {hashes[NotFoundName]}]]]

(* Not compressed either, but with the headers of a compressed asset.      *)
NotFoundInline ==
    [file |-> <<"[404 fallback]">>,
     body |-> Uncompressed(InlineBody),
     headers |-> HeaderArrays([e \in Encodings |-> Length("identity", ThirtyBytes)],
                              {InlineBody})]

NotFound ==
    IF NotFoundName \in ToSet(files) THEN NotFoundFromFile ELSE NotFoundInline

ChromeDevtools ==
    [file |-> <<"[chrome-devtools]">>,
     body |-> Uncompressed(EmptyBody),
     headers |-> HeaderArrays([e \in Encodings |-> Length("identity", EmptyBody)], {})]

ChromePath == <<"/", ".well-known/appspecific/com.chrome.devtools.json">>

(* route: the first arm that matches.                                      *)
Claims(path) == {i \in DOMAIN files : path \in ToSet(UrlPaths(files[i]))}

Route(path) ==
    IF Claims(path) # {}
    THEN FileAsset(CHOOSE i \in Claims(path) : \A j \in Claims(path) : i <= j)
    ELSE IF path = <<"/", "v">> THEN VersionAsset
    ELSE IF path = ChromePath THEN ChromeDevtools
    ELSE NotFound

(* response_for_asset                                                      *)
Response(asset, e) ==
    [coding |-> asset.body[e][1], body |-> asset.body[e][2],
     headers |-> asset.headers[e]]

(* What a client without compression gets for a path.                      *)
Got(path) == Response(Route(path), "identity").body

-----------------------------------------------------------------------------
(* Properties.                                                             *)

Served == pass = "served"

(* The type invariant: every map is about files of the site, and the       *)
(* metadata is that of the files passed.                                   *)
TypeOK ==
    /\ files \in Seq(Names)
    /\ embed \in EmbedChoices
    /\ sri \in BOOLEAN
    /\ pass \in {"collect", "assets", "pages", "metadata", "version", "compile",
                 "served", "failed"}
    /\ at \in 1 .. Len(Round) + 1
    /\ DOMAIN disk \subseteq ToSet(files) \cup {VersionFile}
    /\ DOMAIN hashes \subseteq ToSet(files)
    /\ DOMAIN lens = DOMAIN hashes
    /\ \A f \in DOMAIN hashes : hashes[f].of = f /\ lens[f].of = f
    /\ Len(meta) <= Len(files)
    /\ \A i \in DOMAIN meta : DOMAIN meta[i] = Encodings

(* The headers of the asset are about its body: the length in every coding *)
(* it may be asked for, the coding (of nothing, any), and the digest of    *)
(* the body without coding.                                                *)
Fits(asset) ==
    \A e \in Supported :
        LET r == Response(asset, e)
        IN  /\ r.headers.length = Length(r.coding, r.body)
            /\ r.headers.coding = r.coding \/ r.body = EmptyBody
            /\ r.headers.digest \subseteq {Response(asset, "identity").body}

(* Whatever the order of the passes, the headers of every file and of the  *)
(* special assets are about the body the compiler includes.  Not so for    *)
(* public/v.txt, which the version replaces after it was measured, and the *)
(* inline 404 page.                                                        *)
ResponsesFit ==
    Served =>
        /\ \A i \in DOMAIN files : files[i] # VersionFile => Fits(FileAsset(i))
        /\ Fits(VersionAsset)
        /\ Fits(ChromeDevtools)
        /\ NotFoundName \in ToSet(files) \ {VersionFile} => Fits(NotFound)

(* With SRI, a page has the digest of every script, style or image it      *)
(* refers to, and each digest it has is that of the body its reference     *)
(* leads to: browsers refuse anything else.  Again but for public/v.txt,   *)
(* and for files that an alias hides (OwnNameWins).                        *)
PagesMatchSubresources ==
    Served /\ sri =>
        \A p \in ToSet(files) : IsPage(p) =>
            /\ \A g \in Links[p] \cap ToSet(files) :
                ~ IsPage(g) =>
                    \E d \in disk[p].integrity : d[1] = g
            /\ \A d \in disk[p].integrity :
                d[1] # VersionFile /\ Route(Path(d[1])).file = d[1] =>
                    Got(Path(d[1])) = d[2]

(* If all pages are in public/ itself, no alias takes a file's own path:   *)
(* app.js.html claims /app.js, but comes later.                            *)
OwnNameWins ==
    Served /\ (\A f \in ToSet(files) : IsPage(f) => FileName(f) = f) =>
        \A f \in ToSet(files) : Route(Path(f)).file = f

(* /v answers with the version of the build in every coding, unless a page *)
(* of that name hides it, also if there is a public/v.txt.                 *)
VersionServed ==
    Served /\ Claims(<<"/", "v">>) = {} =>
        \A e \in Supported : Route(<<"/", "v">>).body[e] = <<e, VersionBody>>

(* What response.rs:133-134 says of the headers, for every path: "Each     *)
(* variant includes all static headers plus per-encoding Content-Length    *)
(* and Content-Encoding (where applicable)".                               *)
HeadersDescribeBody ==
    Served =>
        \A path \in {Path(f) : f \in Names} \cup {<<"/", "v">>, ChromePath} :
            Fits(Route(path))

=============================================================================
