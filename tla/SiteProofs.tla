----------------------------- MODULE SiteProofs -----------------------------
(***************************************************************************)
(* The headers of a site fit its bodies, whatever its files, their names   *)
(* and references, and the encodings the build embeds.                     *)
(*                                                                         *)
(* ResponsesFit is about three things written at different times: what is  *)
(* in OUT_DIR when the compiler runs, file_hashes, and the lengths in the  *)
(* metadata.  SiteInv says that they agree at every moment, once they are  *)
(* there, and which files each pass has left behind.                       *)
(*                                                                         *)
(* What pages say of the files they refer to is PageInv: the digests in    *)
(* their tags are those of file_hashes, as a digest never changes once it  *)
(* is there: no file is listed twice, and no page is hashed before it is   *)
(* written.                                                                *)
(***************************************************************************)
EXTENDS Csp, SequenceTheorems, WellFoundedInduction, TLAPS

(* The passes over the files that come before their lengths are read.      *)
Early == {"collect", "assets", "pages"}

(* The passes that can only begin when that is done.                       *)
Late == {"version", "compile", "served"}

(* What is hashed is what was measured and is in OUT_DIR, until the        *)
(* version replaces v.txt.                                                 *)
Consistent ==
    \A f \in DOMAIN hashes :
        /\ f \in DOMAIN disk
        /\ lens[f] = hashes[f]
        /\ \/ disk[f] = hashes[f]
           \/ f = VersionFile /\ pass \in {"compile", "served", "failed"}

(* The files a pass has left behind are hashed.                            *)
Processed ==
    \A i \in 1 .. Len(files) :
        \/ pass = "collect"
        \/ pass = "failed"
        \/ pass = "assets" /\ (IsPage(files[i]) \/ at <= i)
        \/ pass = "pages" /\ IsPage(files[i]) /\ at <= i
        \/ files[i] \in DOMAIN hashes

(* The lengths are those of what is hashed, in the order of the files.     *)
Lengths ==
    /\ meta \in Seq([Encodings -> Encodings \X {hashes[f] : f \in DOMAIN hashes}])
    /\ pass \in Early => meta = <<>>
    /\ pass = "metadata" => Len(meta) = at - 1
    /\ pass \in Late => Len(meta) = Len(files)
    /\ \A i \in 1 .. Len(meta) : \A e \in Encodings :
           meta[i][e] = Length(e, hashes[files[i]])

(* The version is in OUT_DIR when the compiler runs.                       *)
VersionThere ==
    pass \in {"compile", "served"} =>
        VersionFile \in DOMAIN disk /\ disk[VersionFile] = VersionBody

SiteInv == TypeOK /\ Consistent /\ Processed /\ Lengths /\ VersionThere

(* No file is listed twice, nor is a name still to come.                   *)
ListedOnce ==
    /\ \A i, j \in 1 .. Len(files) : files[i] = files[j] => i = j
    /\ pass = "collect" =>
          \A i \in 1 .. Len(files), k \in at .. Len(Sorted) : files[i] # Sorted[k]

(* Pages are not hashed before it is their turn.                           *)
Unwritten ==
    /\ pass \in {"collect", "assets"} => \A f \in DOMAIN hashes : ~ IsPage(f)
    /\ pass = "pages" =>
          \A i \in at .. Len(files) : IsPage(files[i]) => files[i] \notin DOMAIN hashes

(* The digests in a page are those of the files, and none is missing.      *)
Tagged ==
    \A p \in DOMAIN hashes : IsPage(p) =>
        /\ \A d \in disk[p].integrity : \E g \in DOMAIN hashes : d = <<g, hashes[g]>>
        /\ sri => \A g \in Links[p] \cap ToSet(files) :
              ~ IsPage(g) => <<g, hashes[g]>> \in disk[p].integrity

PageInv == ListedOnce /\ Unwritten /\ Tagged

(* What names are made of.                                                 *)
Words == UNION {ToSet(f) : f \in Names}

(* The files are in the order of sort().                                   *)
InOrder ==
    \A i, j \in 1 .. Len(files), k, l \in 1 .. Len(Sorted) :
        i < j /\ files[i] = Sorted[k] /\ files[j] = Sorted[l] => k < l

-----------------------------------------------------------------------------
(* Operators.                                                              *)

(* An element of a list is in the set of its elements.                     *)
LEMMA InToSet ==
    ASSUME NEW S, NEW s \in Seq(S)
    PROVE  /\ DOMAIN s = 1 .. Len(s)
           /\ Len(s) \in Nat
           /\ \A i \in 1 .. Len(s) : s[i] \in S /\ s[i] \in ToSet(s)
BY DEF ToSet

(* Appending a name keeps the elements a list had.                         *)
LEMMA AppendToSet ==
    ASSUME NEW S, NEW s \in Seq(S), NEW x \in S
    PROVE  /\ Append(s, x) \in Seq(S)
           /\ Len(Append(s, x)) = Len(s) + 1
           /\ \A i \in 1 .. Len(s) : Append(s, x)[i] = s[i]
           /\ Append(s, x)[Len(s) + 1] = x
           /\ ToSet(s) \subseteq ToSet(Append(s, x))
<1>1. /\ Append(s, x) \in Seq(S)
      /\ Len(Append(s, x)) = Len(s) + 1
      /\ \A i \in 1 .. Len(s) : Append(s, x)[i] = s[i]
      /\ Append(s, x)[Len(s) + 1] = x
    BY AppendProperties
<1>2. DOMAIN s = 1 .. Len(s) /\ DOMAIN Append(s, x) = 1 .. Len(s) + 1 /\ Len(s) \in Nat
    BY <1>1, InToSet
<1> QED
    BY <1>1, <1>2 DEF ToSet

(* What MinifyFile and the injection make of a file is still of that file. *)
LEMMA MinifiedOf ==
    ASSUME NEW f
    PROVE  /\ \A body \in MinifyFile(f) : body.of = f
           /\ \A integrity : Minified(f, integrity).of = f
BY DEF MinifyFile, Raw, Minified

-----------------------------------------------------------------------------
(* The invariant.                                                          *)

(* Nothing is there at first.                                              *)
LEMMA InitSiteInv == Init => SiteInv
<1> SUFFICES ASSUME Init PROVE SiteInv
    OBVIOUS
<1> USE DEF Init, None
<1>1. files \in Seq(Names) /\ Len(files) = 0 /\ Len(Sorted) \in Nat
    BY SiteAssumption
<1>2. TypeOK
    BY <1>1 DEF TypeOK, Round
<1>3. Consistent /\ Processed /\ VersionThere
    BY <1>1 DEF Consistent, Processed, VersionThere
<1>4. Lengths
    BY DEF Lengths, Late
<1> QED
    BY <1>2, <1>3, <1>4 DEF SiteInv

(* A name is listed before anything is made of it.                         *)
LEMMA CollectFileInv == SiteInv /\ CollectFile => SiteInv'
<1> SUFFICES ASSUME SiteInv, CollectFile PROVE SiteInv'
    OBVIOUS
<1> USE DEF SiteInv, CollectFile
<1>1. files \in Seq(Names) /\ Sorted \in Seq(Names) /\ at \in 1 .. Len(Sorted) + 1
    BY SiteAssumption DEF TypeOK, Round, Names
<1>2. Sorted[at] \in Names /\ Len(Sorted) \in Nat /\ Len(files) \in Nat
    BY <1>1, InToSet
<1>3. files' \in Seq(Names) /\ Len(files') >= Len(files) /\ ToSet(files) \subseteq ToSet(files')
  <2>1. CASE files' = Listed
      BY <2>1, <1>1, <1>2, AppendToSet DEF Listed
  <2>2. CASE UNCHANGED files
      BY <2>2, <1>1, <1>2
  <2> QED
      BY <2>1, <2>2
<1>4. meta = <<>>
    BY DEF Lengths, Early
<1>5. TypeOK'
  <2>1. at' \in 1 .. Len(Round') + 1
      BY <1>1, <1>2 DEF Round
  <2>2. DOMAIN disk \subseteq ToSet(files') \cup {VersionFile} /\ DOMAIN hashes \subseteq ToSet(files')
      BY <1>3 DEF TypeOK
  <2>3. Len(meta) <= Len(files') /\ Len(files') \in Nat
      BY <1>2, <1>3, <1>4, InToSet
  <2> QED
      BY <1>3, <2>1, <2>2, <2>3 DEF TypeOK
<1>6. Consistent' /\ Processed' /\ VersionThere'
    BY DEF Consistent, Processed, VersionThere
<1>7. Lengths'
    BY <1>4 DEF Lengths, Early, Late
<1> QED
    BY <1>5, <1>6, <1>7

(* A content goes into the maps and OUT_DIR together.                      *)
LEMMA StoreInv ==
    ASSUME SiteInv, NEW body, body.of = File,
           pass \in {"assets", "pages"}, at <= Len(files),
           Store(File, body), NextFile
    PROVE  SiteInv'
<1> USE DEF SiteInv, NextFile
<1>1. /\ files \in Seq(Names) /\ Len(files) \in Nat /\ at \in 1 .. Len(files)
      /\ File \in ToSet(files)
    BY InToSet DEF TypeOK, Round, File
<1>2. meta = <<>> /\ meta' = <<>>
    BY DEF Lengths, Early, Store
<1>3. /\ hashes' = Put(hashes, File, body)
      /\ lens' = Put(lens, File, body)
      /\ disk' = Put(disk, File, body)
    BY DEF Store, Hashed, Measured
<1>4. /\ DOMAIN hashes' = DOMAIN hashes \cup {File}
      /\ DOMAIN lens' = DOMAIN lens \cup {File}
      /\ DOMAIN disk' = DOMAIN disk \cup {File}
      /\ hashes'[File] = body /\ lens'[File] = body /\ disk'[File] = body
    BY <1>3 DEF Put
<1>5. \A f \in DOMAIN hashes : f # File =>
          f \in DOMAIN disk /\ f \in DOMAIN lens
          /\ hashes'[f] = hashes[f] /\ lens'[f] = lens[f] /\ disk'[f] = disk[f]
    BY <1>3 DEF Put, TypeOK, Consistent
<1>6. TypeOK'
  <2>1. at' \in 1 .. Len(Round') + 1 /\ Len(meta') <= Len(files')
      BY <1>1, <1>2 DEF Round
  <2>2. \A f \in DOMAIN hashes' : hashes'[f].of = f /\ lens'[f].of = f
      BY <1>4, <1>5 DEF TypeOK
  <2>3. /\ DOMAIN disk' \subseteq ToSet(files') \cup {VersionFile}
        /\ DOMAIN hashes' \subseteq ToSet(files')
        /\ DOMAIN lens' = DOMAIN hashes'
      BY <1>1, <1>4 DEF TypeOK
  <2> QED
      BY <1>2, <2>1, <2>2, <2>3 DEF TypeOK
<1>7. Consistent'
    BY <1>4, <1>5 DEF Consistent
<1>8. Processed'
  <2> SUFFICES ASSUME NEW i \in 1 .. Len(files),
                      ~ (pass = "assets" /\ (IsPage(files[i]) \/ at + 1 <= i)),
                      ~ (pass = "pages" /\ IsPage(files[i]) /\ at + 1 <= i)
               PROVE  files[i] \in DOMAIN hashes'
      BY DEF Processed
  <2>1. CASE i = at
      BY <2>1, <1>4 DEF File
  <2>2. CASE i # at
      BY <2>2, <1>1, <1>4 DEF Processed
  <2> QED
      BY <2>1, <2>2
<1>9. Lengths' /\ VersionThere'
    BY <1>2 DEF Lengths, Early, Late, VersionThere
<1> QED
    BY <1>6, <1>7, <1>8, <1>9

(* A pass leaves alone what the other one is for.                          *)
LEMMA SkipInv ==
    ASSUME SiteInv, at <= Len(files), NextFile,
           \/ pass = "assets" /\ IsPage(File)
           \/ pass = "pages" /\ ~ IsPage(File),
           UNCHANGED <<disk, hashes, lens, meta>>
    PROVE  SiteInv'
<1> USE DEF SiteInv, NextFile
<1>1. files \in Seq(Names) /\ Len(files) \in Nat /\ at \in 1 .. Len(files)
    BY InToSet DEF TypeOK, Round
<1>2. TypeOK'
    BY <1>1 DEF TypeOK, Round
<1>3. Processed'
    BY <1>1 DEF Processed, File
<1>4. Consistent' /\ Lengths' /\ VersionThere'
    BY DEF Consistent, Lengths, Early, Late, VersionThere
<1> QED
    BY <1>2, <1>3, <1>4

(* The two passes that write files.                                        *)
LEMMA MinifyAssetInv == SiteInv /\ MinifyAsset => SiteInv'
BY StoreInv, SkipInv, MinifiedOf DEF MinifyAsset, InPass

(* See above.                                                              *)
LEMMA InjectPageInv == SiteInv /\ InjectPage => SiteInv'
BY StoreInv, SkipInv, MinifiedOf DEF InjectPage, InPass

(* What is measured is what is hashed: nothing is written any more.        *)
LEMMA CollectMetadataInv == SiteInv /\ CollectMetadata => SiteInv'
<1> SUFFICES ASSUME SiteInv, CollectMetadata PROVE SiteInv'
    OBVIOUS
<1> USE DEF SiteInv, CollectMetadata, InPass, NextFile
<1> DEFINE m == [e \in Encodings |->
               Length(e, IF e = "identity" THEN lens[File] ELSE disk[File])]
           M == [Encodings -> Encodings \X {hashes[f] : f \in DOMAIN hashes}]
<1>1. files \in Seq(Names) /\ Len(files) \in Nat /\ at \in 1 .. Len(files)
    BY InToSet DEF TypeOK, Round
<1>2. File \in DOMAIN hashes /\ lens[File] = hashes[File] /\ disk[File] = hashes[File]
  <2>1. File \in DOMAIN hashes
      BY <1>1 DEF Processed, File
  <2> QED
      BY <2>1 DEF Consistent
<1>3. m \in M /\ \A e \in Encodings : m[e] = Length(e, hashes[File])
    BY <1>2 DEF Length
<1>4. meta \in Seq(M) /\ Len(meta) = at - 1 /\ meta' = Append(meta, m)
    BY DEF Lengths
<1> HIDE DEF m, M
<1>5. /\ meta' \in Seq(M) /\ Len(meta') = at
      /\ \A i \in 1 .. at - 1 : meta'[i] = meta[i]
      /\ meta'[at] = m
    BY <1>1, <1>3, <1>4, AppendToSet
<1>6. DOMAIN meta = 1 .. at - 1 /\ DOMAIN meta' = 1 .. at
    BY <1>1, <1>4, <1>5, InToSet
<1>7. \A i \in 1 .. at : \A e \in Encodings : meta'[i][e] = Length(e, hashes[files[i]])
  <2> SUFFICES ASSUME NEW i \in 1 .. at, NEW e \in Encodings
               PROVE  meta'[i][e] = Length(e, hashes[files[i]])
      OBVIOUS
  <2>1. CASE i = at
      BY <2>1, <1>3, <1>5 DEF File
  <2>2. CASE i # at
      BY <2>2, <1>1, <1>4, <1>5 DEF Lengths
  <2> QED
      BY <2>1, <2>2
<1>8. TypeOK'
  <2>1. \A i \in DOMAIN meta' : DOMAIN meta'[i] = Encodings
      BY <1>5, <1>6, InToSet DEF M
  <2>2. at' \in 1 .. Len(Round') + 1 /\ Len(meta') <= Len(files')
      BY <1>1, <1>5 DEF Round
  <2> QED
      BY <2>1, <2>2 DEF TypeOK
<1>9. Lengths'
    BY <1>1, <1>5, <1>7 DEF Lengths, Early, Late, M
<1>10. Consistent' /\ Processed' /\ VersionThere'
    BY DEF Consistent, Processed, VersionThere
<1> QED
    BY <1>8, <1>9, <1>10

(* A build that fails has nothing to show.                                 *)
LEMMA MetadataPanicsInv == SiteInv /\ MetadataPanics => SiteInv'
<1> SUFFICES ASSUME SiteInv, MetadataPanics PROVE SiteInv'
    OBVIOUS
<1> USE DEF SiteInv, MetadataPanics, InPass
<1>1. TypeOK'
    BY DEF TypeOK, Round
<1>2. Consistent' /\ Processed' /\ VersionThere'
    BY DEF Consistent, Processed, VersionThere
<1>3. Lengths'
    BY DEF Lengths, Early, Late
<1> QED
    BY <1>1, <1>2, <1>3

(* What a pass has left behind at its end is all files.                    *)
LEMMA EndPassInv == SiteInv /\ EndPass => SiteInv'
<1> SUFFICES ASSUME SiteInv, EndPass PROVE SiteInv'
    OBVIOUS
<1> USE DEF SiteInv, EndPass, AtEnd, Following
<1>1. files \in Seq(Names) /\ Len(files) \in Nat /\ Len(Round) \in Nat /\ at \in 1 .. Len(Round) + 1
    BY SiteAssumption, InToSet DEF TypeOK, Round
<1>2. at = Len(Round) + 1
    BY <1>1
<1>3. /\ pass \in {"collect", "assets", "pages", "metadata"}
      /\ pass = "collect" => pass' = "assets"
      /\ pass = "assets" => pass' = "pages"
      /\ pass = "pages" => pass' = "metadata"
      /\ pass = "metadata" => pass' = "version"
    OBVIOUS
<1> HIDE DEF Following
<1>4. TypeOK'
  <2>1. at' \in 1 .. Len(Round') + 1
      BY <1>1, <1>3 DEF Round
  <2> QED
      BY <1>3, <2>1 DEF TypeOK
<1>5. Processed'
    BY <1>1, <1>2, <1>3 DEF Processed, Round
<1>6. Consistent' /\ VersionThere'
    BY <1>3 DEF Consistent, VersionThere
<1>7. Lengths'
    BY <1>1, <1>2, <1>3 DEF Lengths, Early, Late, Round
<1> QED
    BY <1>4, <1>5, <1>6, <1>7

(* The version replaces v.txt, and nothing else.                           *)
LEMMA BuildVersionInv == SiteInv /\ BuildVersion => SiteInv'
<1> SUFFICES ASSUME SiteInv, BuildVersion PROVE SiteInv'
    OBVIOUS
<1> USE DEF SiteInv, BuildVersion, WriteVersion
<1>1. /\ DOMAIN disk' = DOMAIN disk \cup {VersionFile}
      /\ disk'[VersionFile] = VersionBody
      /\ \A f \in DOMAIN disk : f # VersionFile => disk'[f] = disk[f]
    BY DEF Put
<1>2. TypeOK'
    BY <1>1 DEF TypeOK, Round
<1>3. Consistent' /\ Processed' /\ VersionThere'
    BY <1>1 DEF Consistent, Processed, VersionThere
<1>4. Lengths'
    BY DEF Lengths, Early, Late
<1> QED
    BY <1>2, <1>3, <1>4

(* The compiler changes nothing it reads.                                  *)
LEMMA CompileInv == SiteInv /\ Compile => SiteInv'
<1> SUFFICES ASSUME SiteInv, Compile PROVE SiteInv'
    OBVIOUS
<1> USE DEF SiteInv
<1>1. /\ pass = "compile" /\ pass' \in {"served", "failed"}
      /\ UNCHANGED <<files, embed, sri, at, disk, hashes, lens, meta>>
    BY DEF Compile
<1>2. TypeOK'
    BY <1>1 DEF TypeOK, Round
<1>3. Consistent' /\ Processed' /\ VersionThere'
    BY <1>1 DEF Consistent, Processed, VersionThere
<1>4. Lengths'
    BY <1>1 DEF Lengths, Early, Late
<1> QED
    BY <1>2, <1>3, <1>4

(* No step of the build breaks the invariant.                              *)
LEMMA NextSiteInv == SiteInv /\ [Next]_vars => SiteInv'
<1> SUFFICES ASSUME SiteInv, [Next]_vars PROVE SiteInv'
    OBVIOUS
<1>1. CASE Next
    BY <1>1, CollectFileInv, MinifyAssetInv, InjectPageInv, CollectMetadataInv,
       MetadataPanicsInv, EndPassInv, BuildVersionInv, CompileInv DEF Next
<1>2. CASE UNCHANGED vars
  <2> USE <1>2 DEF vars, SiteInv
  <2>1. TypeOK'
      BY DEF TypeOK, Round
  <2>2. Consistent' /\ Processed' /\ VersionThere'
      BY DEF Consistent, Processed, VersionThere
  <2>3. Lengths'
      BY DEF Lengths
  <2> QED
      BY <2>1, <2>2, <2>3
<1> QED
    BY <1>1, <1>2

(* The invariant holds in every state of every build.                      *)
LEMMA SiteInvariant == Spec => []SiteInv
BY InitSiteInv, NextSiteInv, PTL DEF Spec

-----------------------------------------------------------------------------
(* The theorems.                                                           *)

(* Type correctness of the build.                                          *)
THEOREM SiteTypes == Spec => []TypeOK
BY SiteInvariant, PTL DEF SiteInv

(* The encodings in use are among those an asset has a body for.           *)
LEMMA SupportedEncodings ==
    TypeOK => Supported \subseteq Encodings /\ "identity" \in Supported
BY SiteAssumption DEF TypeOK, Supported, Encodings

(* The parts of what is sent for an asset with the usual headers.          *)
LEMMA UsualResponse ==
    ASSUME NEW asset, NEW lengths, NEW digest, NEW e \in Encodings,
           asset.headers = HeaderArrays(lengths, digest)
    PROVE  /\ Response(asset, e).headers.length = lengths[e]
           /\ Response(asset, e).headers.coding = e
           /\ Response(asset, e).headers.digest = digest
           /\ Response(asset, e).coding = asset.body[e][1]
           /\ Response(asset, e).body = asset.body[e][2]
BY DEF Response, HeaderArrays

(* A file's asset fits: all that is said of it is said of what is hashed.  *)
LEMMA FileFits ==
    ASSUME SiteInv, Served, NEW i \in 1 .. Len(files), files[i] # VersionFile
    PROVE  Fits(FileAsset(i))
<1> USE DEF SiteInv, Served
<1> DEFINE a == FileAsset(i)
           body == disk[files[i]]
<1>1. files[i] \in DOMAIN hashes /\ body = hashes[files[i]]
    BY DEF Processed, Consistent
<1>2. \A e \in Encodings : meta[i][e] = Length(e, body)
    BY <1>1 DEF Lengths, Late
<1>3. Supported \subseteq Encodings /\ "identity" \in Supported
    BY SupportedEncodings
<1>4. /\ a.headers = HeaderArrays(meta[i], {body})
      /\ \A e \in Supported : a.body[e][1] = e /\ a.body[e][2] = body
    BY <1>1, <1>3 DEF FileAsset, FileBodies
<1> HIDE DEF a, body
<1>5. \A e \in Supported :
          /\ Response(a, e).headers.length = Length(e, body)
          /\ Response(a, e).headers.coding = e
          /\ Response(a, e).headers.digest = {body}
          /\ Response(a, e).coding = e
          /\ Response(a, e).body = body
    BY <1>2, <1>3, <1>4, UsualResponse
<1>6. Fits(a)
    BY <1>3, <1>5 DEF Fits
<1> QED
    BY <1>6 DEF a

(* The version asset fits: its bodies are made of what it is measured by.  *)
LEMMA VersionFits ==
    ASSUME SiteInv, Served
    PROVE  Fits(VersionAsset)
<1>1. Supported \subseteq Encodings /\ "identity" \in Supported
    BY SupportedEncodings DEF SiteInv
<1>2. disk[VersionFile] = VersionBody
    BY DEF SiteInv, VersionThere, Served
<1> DEFINE L == [e \in Encodings |-> Length(e, VersionBody)]
<1>3. /\ VersionAsset.headers = HeaderArrays(L, {})
      /\ \A e \in Supported : VersionAsset.body[e][1] = e /\ VersionAsset.body[e][2] = VersionBody
      /\ \A e \in Supported : L[e] = Length(e, VersionBody)
    BY <1>1, <1>2 DEF VersionAsset, VersionBodies
<1> HIDE DEF L
<1> QED
    BY <1>1, <1>3, UsualResponse DEF Fits

(* An empty body fits any coding, as nothing needs no coding.              *)
LEMMA ChromeFits ==
    ASSUME SiteInv
    PROVE  Fits(ChromeDevtools)
<1>1. Supported \subseteq Encodings /\ "identity" \in Supported
    BY SupportedEncodings DEF SiteInv
<1> DEFINE L == [e \in Encodings |-> Length("identity", EmptyBody)]
<1>2. /\ ChromeDevtools.headers = HeaderArrays(L, {})
      /\ \A e \in Supported :
             ChromeDevtools.body[e][1] = "identity" /\ ChromeDevtools.body[e][2] = EmptyBody
      /\ \A e \in Supported : L[e] = Length("identity", EmptyBody)
    BY <1>1 DEF ChromeDevtools, Uncompressed
<1> HIDE DEF L
<1> QED
    BY <1>1, <1>2, UsualResponse DEF Fits

(* A 404 page of the site fits: it is sent as it was hashed.               *)
LEMMA NotFoundFits ==
    ASSUME SiteInv, Served, NotFoundName \in ToSet(files) \ {VersionFile}
    PROVE  Fits(NotFound)
<1>1. Supported \subseteq Encodings /\ "identity" \in Supported
    BY SupportedEncodings DEF SiteInv
<1>2. NotFound = NotFoundFromFile
    BY DEF NotFound
<1>3. hashes[NotFoundName] = disk[NotFoundName]
  <2>1. files \in Seq(Names)
      BY DEF SiteInv, TypeOK
  <2>2. PICK i \in 1 .. Len(files) : files[i] = NotFoundName
      BY <2>1, InToSet DEF ToSet
  <2> QED
      BY <2>2 DEF SiteInv, Processed, Consistent, Served
<1> DEFINE body == disk[NotFoundName]
<1>4. \A e \in Supported :
          /\ Response(NotFoundFromFile, e).headers.length = Length("identity", body)
          /\ Response(NotFoundFromFile, e).headers.coding = "identity"
          /\ Response(NotFoundFromFile, e).headers.digest = {body}
          /\ Response(NotFoundFromFile, e).coding = "identity"
          /\ Response(NotFoundFromFile, e).body = body
    BY <1>1, <1>3 DEF Response, NotFoundFromFile, Uncompressed
<1> HIDE DEF body
<1> QED
    BY <1>1, <1>2, <1>4 DEF Fits

(* The headers of all assets fit, but for v.txt and the inline 404 page.   *)
LEMMA InvFits == SiteInv => ResponsesFit
<1> SUFFICES ASSUME SiteInv, Served
             PROVE  \A i \in DOMAIN files : files[i] # VersionFile => Fits(FileAsset(i))
    BY VersionFits, ChromeFits, NotFoundFits DEF ResponsesFit
<1>1. files \in Seq(Names)
    BY DEF SiteInv, TypeOK
<1> QED
    BY <1>1, FileFits, InToSet

(* Whatever the files and the encodings, headers fit bodies.               *)
THEOREM HeadersFit == Spec => []ResponsesFit
BY SiteInvariant, InvFits, PTL

(* /v answers with the version of the build, unless a page hides it.       *)
THEOREM VersionIsServed == Spec => []VersionServed
<1>1. SiteInv => VersionServed
  <2> SUFFICES ASSUME SiteInv, Served, Claims(<<"/", "v">>) = {},
                      NEW e \in Supported
               PROVE  Route(<<"/", "v">>).body[e] = <<e, VersionBody>>
      BY DEF VersionServed
  <2>1. Route(<<"/", "v">>) = VersionAsset
      BY DEF Route
  <2>2. disk[VersionFile] = VersionBody
      BY DEF SiteInv, VersionThere, Served
  <2> QED
      BY <2>1, <2>2, SupportedEncodings DEF VersionAsset, VersionBodies, SiteInv
<1> QED
    BY <1>1, SiteInvariant, PTL

-----------------------------------------------------------------------------
(* What is in the pages.                                                   *)

(* v.txt is not a page: its only dot is the second word.                   *)
LEMMA VersionFileIsNoPage == ~ IsPage(VersionFile)
<1> DEFINE v == VersionFile
<1>1. v = <<"v", ".", "txt">> /\ Len(v) = 3 /\ v[1] = "v" /\ v[2] = "." /\ v[3] = "txt"
    BY DEF VersionFile
<1>2. LastOf(v, ".") = 2
  <2> DEFINE P(i) == (i > 0 => v[i] = ".") /\ \A j \in i + 1 .. Len(v) : v[j] # "."
  <2>1. P(2)
      BY <1>1
  <2>2. \A i \in 0 .. Len(v) : P(i) => i = 2
      BY <1>1
  <2>3. LastOf(v, ".") = CHOOSE i \in 0 .. Len(v) : P(i)
      BY DEF LastOf
  <2>4. 2 \in 0 .. Len(v)
      BY <1>1
  <2> HIDE DEF P, v
  <2> QED
      BY <2>1, <2>2, <2>3, <2>4
<1>3. Extension(v) = SubSeq(v, 3, 3)
    BY <1>1, <1>2 DEF Extension
<1>4. Extension(v)[1] = "txt"
    BY <1>1, <1>3
<1> QED
    BY <1>4 DEF IsPage

(* At first there is no file.                                              *)
LEMMA InitPageInv == Init => PageInv
<1> SUFFICES ASSUME Init PROVE PageInv
    OBVIOUS
<1>1. Len(files) = 0 /\ DOMAIN hashes = {} /\ pass = "collect"
    BY DEF Init, None
<1> QED
    BY <1>1 DEF PageInv, ListedOnce, Unwritten, Tagged

(* A name is listed once.                                                  *)
LEMMA CollectFilePages == SiteInv /\ PageInv /\ CollectFile => PageInv'
<1> SUFFICES ASSUME SiteInv, PageInv, CollectFile PROVE PageInv'
    OBVIOUS
<1>1. /\ files \in Seq(Names) /\ Sorted \in Seq(Names)
      /\ at \in 1 .. Len(Sorted) /\ Len(Sorted) \in Nat /\ Len(files) \in Nat
      /\ Sorted[at] \in Names /\ at' = at + 1 /\ pass = "collect" /\ pass' = pass
    BY SiteAssumption, InToSet DEF SiteInv, TypeOK, Round, Names, CollectFile
<1>2. \A k \in at + 1 .. Len(Sorted) : Sorted[k] # Sorted[at]
    BY <1>1, SiteAssumption, InToSet DEF IsInjective
<1>3. ListedOnce'
  <2>1. CASE files' = Listed
    <3>1. /\ Len(files') = Len(files) + 1
          /\ \A i \in 1 .. Len(files) : files'[i] = files[i]
          /\ files'[Len(files) + 1] = Sorted[at]
        BY <2>1, <1>1, AppendToSet DEF Listed
    <3> QED
        BY <3>1, <1>1, <1>2 DEF PageInv, ListedOnce
  <2>2. CASE UNCHANGED files
      BY <2>2, <1>1 DEF PageInv, ListedOnce
  <2> QED
      BY <2>1, <2>2 DEF CollectFile
<1>4. (Unwritten /\ Tagged)'
    BY <1>1 DEF PageInv, Unwritten, Tagged, CollectFile
<1> QED
    BY <1>3, <1>4 DEF PageInv

(* A script or style is hashed while no page is.                           *)
LEMMA MinifyAssetPages == SiteInv /\ PageInv /\ MinifyAsset => PageInv'
<1> SUFFICES ASSUME SiteInv, PageInv, MinifyAsset PROVE PageInv'
    OBVIOUS
<1>1. pass = "assets" /\ pass' = pass /\ files' = files
    BY DEF MinifyAsset, InPass, NextFile
<1>2. DOMAIN hashes' \subseteq DOMAIN hashes \cup (IF IsPage(File) THEN {} ELSE {File})
    BY DEF MinifyAsset, Store, Hashed, Put
<1>3. \A f \in DOMAIN hashes' : ~ IsPage(f)
    BY <1>1, <1>2 DEF PageInv, Unwritten
<1> QED
    BY <1>1, <1>3 DEF PageInv, ListedOnce, Unwritten, Tagged

(* A page gets the digests that are there, and all but pages have one.     *)
LEMMA InjectPagePages == SiteInv /\ PageInv /\ InjectPage => PageInv'
<1> SUFFICES ASSUME SiteInv, PageInv, InjectPage PROVE PageInv'
    OBVIOUS
<1>1. /\ pass = "pages" /\ pass' = pass /\ UNCHANGED <<files, sri>> /\ at' = at + 1
      /\ at \in 1 .. Len(files) /\ Len(files) \in Nat
      /\ files \in Seq(Names) /\ File = files[at] /\ File \in ToSet(files)
    BY InToSet DEF InjectPage, InPass, NextFile, SiteInv, TypeOK, Round, File
<1>2. ListedOnce'
    BY <1>1 DEF PageInv, ListedOnce
<1>3. CASE ~ IsPage(File) /\ UNCHANGED <<disk, hashes, lens, meta>>
    BY <1>1, <1>2, <1>3 DEF PageInv, Unwritten, Tagged
<1>4. CASE IsPage(File) /\ Store(File, Minified(File, Injected(File)))
  <2> DEFINE body == Minified(File, Injected(File))
  <2>1. File \notin DOMAIN hashes
      BY <1>1, <1>4 DEF PageInv, Unwritten
  <2>2. /\ DOMAIN hashes' = DOMAIN hashes \cup {File}
        /\ \A f \in DOMAIN hashes : f # File /\ hashes'[f] = hashes[f] /\ disk'[f] = disk[f]
        /\ disk'[File] = body
      BY <1>4, <2>1 DEF Store, Hashed, Put, SiteInv, Consistent
  <2>3. Unwritten'
    <3> SUFFICES ASSUME NEW i \in at + 1 .. Len(files), IsPage(files[i])
                 PROVE  files[i] \notin DOMAIN hashes'
        BY <1>1 DEF Unwritten
    <3>1. files[i] # File
        BY <1>1 DEF PageInv, ListedOnce
    <3> QED
        BY <1>1, <2>2, <3>1 DEF PageInv, Unwritten
  <2>4. body.integrity = Injected(File)
      BY DEF Minified
  <2> HIDE DEF body
  <2>5. ASSUME NEW p \in DOMAIN hashes', IsPage(p)
        PROVE  /\ \A d \in disk'[p].integrity : \E g \in DOMAIN hashes' : d = <<g, hashes'[g]>>
               /\ sri => \A g \in Links[p] \cap ToSet(files) :
                     ~ IsPage(g) => <<g, hashes'[g]>> \in disk'[p].integrity
    <3>1. \A g \in ToSet(files) : ~ IsPage(g) => g \in DOMAIN hashes
        BY <1>1, InToSet DEF SiteInv, Processed, ToSet
    <3>2. CASE p = File
      <4>1. disk'[p].integrity = Injected(File)
          BY <3>2, <2>2, <2>4
      <4>2. \A d \in Injected(File) : \E g \in DOMAIN hashes : d = <<g, hashes[g]>>
          BY DEF Injected
      <4>3. sri => \A g \in Links[File] \cap DOMAIN hashes : <<g, hashes[g]>> \in Injected(File)
          BY DEF Injected
      <4>4. \A d \in disk'[p].integrity : \E g \in DOMAIN hashes' : d = <<g, hashes'[g]>>
          BY <4>1, <4>2, <2>2
      <4>5. sri => \A g \in Links[p] \cap ToSet(files) :
                     ~ IsPage(g) => <<g, hashes'[g]>> \in disk'[p].integrity
          BY <4>1, <4>3, <3>1, <3>2, <2>2
      <4> QED
          BY <4>4, <4>5
    <3>3. CASE p # File
      <4>1. p \in DOMAIN hashes /\ disk'[p] = disk[p]
          BY <3>3, <2>2
      <4>2. \A d \in disk[p].integrity : \E g \in DOMAIN hashes : d = <<g, hashes[g]>>
          BY <4>1, <2>5 DEF PageInv, Tagged
      <4>3. sri => \A g \in Links[p] \cap ToSet(files) :
                     ~ IsPage(g) => <<g, hashes[g]>> \in disk[p].integrity
          BY <4>1, <2>5 DEF PageInv, Tagged
      <4> QED
          BY <4>1, <4>2, <4>3, <3>1, <2>2
    <3> QED
        BY <3>2, <3>3
  <2>6. Tagged'
      BY <1>1, <2>5 DEF Tagged
  <2> QED
      BY <1>2, <2>3, <2>6 DEF PageInv
<1> QED
    BY <1>3, <1>4 DEF InjectPage

(* The other steps write no page, and v.txt is none.                       *)
LEMMA OtherPages ==
    SiteInv /\ PageInv
    /\ (CollectMetadata \/ MetadataPanics \/ EndPass \/ BuildVersion \/ Compile \/ UNCHANGED vars)
    => PageInv'
<1> SUFFICES ASSUME SiteInv, PageInv,
                    \/ CollectMetadata \/ MetadataPanics \/ EndPass
                    \/ BuildVersion \/ Compile \/ UNCHANGED vars
             PROVE  PageInv'
    OBVIOUS
<1>1. UNCHANGED <<files, sri, hashes>>
    BY DEF CollectMetadata, MetadataPanics, EndPass, BuildVersion, Compile, vars, NextFile
<1>2. \A p \in DOMAIN hashes : IsPage(p) => disk'[p] = disk[p]
    BY VersionFileIsNoPage DEF CollectMetadata, MetadataPanics, EndPass, BuildVersion,
       WriteVersion, Put, Compile, vars, SiteInv, Consistent
<1>3. Tagged'
    BY <1>1, <1>2 DEF PageInv, Tagged
<1>4. \/ pass' \notin {"collect", "assets", "pages"}
      \/ pass = "collect" /\ pass' = "assets"
      \/ pass = "assets" /\ pass' = "pages"
      \/ UNCHANGED vars
    BY DEF CollectMetadata, InPass, MetadataPanics, EndPass, AtEnd, Following,
       BuildVersion, Compile, NextFile
<1>5. (ListedOnce /\ Unwritten)'
  <2>1. CASE pass' \notin {"collect", "assets", "pages"}
      BY <2>1, <1>1 DEF PageInv, ListedOnce, Unwritten
  <2>2. CASE pass = "collect" /\ pass' = "assets"
      BY <2>2, <1>1 DEF PageInv, ListedOnce, Unwritten
  <2>3. CASE pass = "assets" /\ pass' = "pages"
    <3>1. \A i \in at' .. Len(files) : IsPage(files[i]) => files[i] \notin DOMAIN hashes
        BY <2>3 DEF PageInv, Unwritten
    <3> QED
        BY <2>3, <3>1, <1>1 DEF PageInv, ListedOnce, Unwritten
  <2>4. CASE UNCHANGED vars
      BY <2>4 DEF PageInv, ListedOnce, Unwritten, vars
  <2> QED
      BY <2>1, <2>2, <2>3, <2>4, <1>4
<1> QED
    BY <1>3, <1>5 DEF PageInv

(* The pages are as they should be in every state of every build.          *)
LEMMA PageInvariant == Spec => [](SiteInv /\ PageInv)
<1>1. SiteInv /\ PageInv /\ [Next]_vars => PageInv'
    BY CollectFilePages, MinifyAssetPages, InjectPagePages, OtherPages DEF Next
<1> QED
    BY <1>1, InitPageInv, SiteInvariant, PTL DEF Spec

(* All digests are there, once the site is served, and pages have those of *)
(* the files they refer to.                                                *)
LEMMA ServedPage ==
    ASSUME SiteInv, PageInv, Served, NEW p \in ToSet(files), IsPage(p)
    PROVE  /\ DOMAIN hashes = ToSet(files)
           /\ \A d \in disk[p].integrity : \E g \in DOMAIN hashes : d = <<g, hashes[g]>>
           /\ sri => \A g \in Links[p] \cap ToSet(files) :
                 ~ IsPage(g) => <<g, hashes[g]>> \in disk[p].integrity
<1>1. files \in Seq(Names)
    BY DEF SiteInv, TypeOK
<1>2. DOMAIN hashes = ToSet(files)
  <2>1. DOMAIN hashes \subseteq ToSet(files)
      BY DEF SiteInv, TypeOK
  <2>2. \A i \in 1 .. Len(files) : files[i] \in DOMAIN hashes
      BY DEF SiteInv, Processed, Served
  <2>3. ToSet(files) \subseteq DOMAIN hashes
      BY <1>1, <2>2, InToSet DEF ToSet
  <2> QED
      BY <2>1, <2>3
<1> QED
    BY <1>2 DEF PageInv, Tagged

(* With SRI, pages have the digests of what they refer to, and no others.  *)
THEOREM PagesFit == Spec => []PagesMatchSubresources
<1>1. SiteInv /\ PageInv => PagesMatchSubresources
  <2> SUFFICES ASSUME SiteInv, PageInv, Served, sri,
                      NEW p \in ToSet(files), IsPage(p)
               PROVE  /\ \A g \in Links[p] \cap ToSet(files) :
                          ~ IsPage(g) => \E d \in disk[p].integrity : d[1] = g
                      /\ \A d \in disk[p].integrity :
                          d[1] # VersionFile /\ Route(Path(d[1])).file = d[1] =>
                              Got(Path(d[1])) = d[2]
      BY DEF PagesMatchSubresources
  <2>1. ASSUME NEW g \in Links[p] \cap ToSet(files), ~ IsPage(g)
        PROVE  \E d \in disk[p].integrity : d[1] = g
    <3>1. <<g, hashes[g]>> \in disk[p].integrity
        BY <2>1, ServedPage
    <3> QED
        BY <3>1
  <2>2. ASSUME NEW d \in disk[p].integrity, d[1] # VersionFile,
               Route(Path(d[1])).file = d[1]
        PROVE  Got(Path(d[1])) = d[2]
    <3>1. PICK g \in DOMAIN hashes : d = <<g, hashes[g]>>
        BY ServedPage
    <3>2. d[1] = g /\ d[2] = hashes[g] /\ g \in ToSet(files)
        BY <3>1, ServedPage
    <3>3. disk[g] = hashes[g]
        BY <2>2, <3>2 DEF SiteInv, Consistent
    <3>4. Claims(Path(g)) # {}
      <4>1. PICK i \in DOMAIN files : files[i] = g
          BY <3>2 DEF ToSet
      <4>2. Path(g) \in ToSet(UrlPaths(g))
          BY DEF UrlPaths, ToSet
      <4> QED
          BY <4>1, <4>2 DEF Claims
    <3>5. PICK i : Route(Path(g)) = FileAsset(i)
        BY <3>4 DEF Route
    <3>6. files[i] = g
        BY <2>2, <3>2, <3>5 DEF FileAsset
    <3>7. "identity" \in Supported /\ "identity" \in Encodings
        BY SupportedEncodings DEF SiteInv, Encodings
    <3>8. Route(Path(g)).body["identity"] = <<"identity", disk[g]>>
        BY <3>5, <3>6, <3>7 DEF FileAsset, FileBodies
    <3>9. Got(Path(g)) = disk[g]
        BY <3>8 DEF Got, Response
    <3> QED
        BY <3>2, <3>3, <3>9
  <2> QED
      BY <2>1, <2>2
<1> QED
    BY <1>1, PageInvariant, PTL

-----------------------------------------------------------------------------
(* Who has a path.                                                         *)

(* A set of numbers has a least one.                                       *)
LEMMA LeastNat ==
    ASSUME NEW T \in SUBSET Nat, T # {}
    PROVE  \E x \in T : \A y \in T : x <= y
<1> DEFINE R == OpToRel(<, Nat)
<1>1. IsWellFoundedOn(R, Nat)
    BY NatLessThanWellFounded
<1>2. \A x, y \in Nat : x < y => <<x, y>> \in R
    BY DEF OpToRel
<1> HIDE DEF R
<1>3. PICK x \in T : \A y \in T : ~ (<<y, x>> \in R)
    BY <1>1, WFMin
<1>4. ASSUME NEW y \in T PROVE x <= y
  <2>1. x \in Nat /\ y \in Nat
      OBVIOUS
  <2>2. ~ (y < x)
      BY <2>1, <1>2, <1>3
  <2> QED
      BY <2>1, <2>2
<1> QED
    BY <1>4

(* LastOf finds a place of the list, or 0: there is one after which sep    *)
(* does not come, and the least of these has sep.                          *)
LEMMA LastOfPlace ==
    ASSUME NEW S, NEW s \in Seq(S), NEW sep
    PROVE  LastOf(s, sep) \in 0 .. Len(s)
<1> DEFINE T == {i \in 0 .. Len(s) : \A j \in i + 1 .. Len(s) : s[j] # sep}
<1>1. Len(s) \in Nat
    OBVIOUS
<1>2. Len(s) \in T /\ T \in SUBSET Nat
    BY <1>1
<1>3. PICK i \in T : \A j \in T : i <= j
    BY <1>2, LeastNat
<1>4. i \in 0 .. Len(s) /\ \A j \in i + 1 .. Len(s) : s[j] # sep
    BY <1>3
<1>5. ASSUME i > 0 PROVE s[i] = sep
  <2>1. i - 1 \in T => i <= i - 1
      BY <1>3
  <2>2. i - 1 \in 0 .. Len(s) /\ i - 1 \notin T
      BY <1>1, <1>4, <1>5, <2>1
  <2>3. PICK j \in i .. Len(s) : s[j] = sep
      BY <1>1, <1>4, <2>2
  <2> QED
      BY <1>1, <1>4, <2>3
<1> QED
    BY <1>4, <1>5 DEF LastOf

(* Without a directory, the stem of a page is a name it begins with.       *)
LEMMA StemIsPrefix ==
    ASSUME NEW S, NEW p \in Seq(S), IsPage(p), FileName(p) = p
    PROVE  Stem(p) \in Seq(S) /\ IsStrictPrefix(Stem(p), p)
<1> DEFINE k == LastOf(p, ".")
<1>1. k \in 0 .. Len(p) /\ k > 1 /\ Len(p) \in Nat
    BY LastOfPlace DEF IsPage, HasExtension
<1>2. Stem(p) = SubSeq(p, 1, k - 1)
    BY DEF Stem
<1> HIDE DEF k
<1>3. \A i \in 1 .. k - 1 : p[i] \in S
    BY <1>1, InToSet
<1>4. /\ Stem(p) \in Seq(S)
      /\ Len(Stem(p)) = k - 1
      /\ \A i \in 1 .. k - 1 : Stem(p)[i] = p[i]
    BY <1>1, <1>2, <1>3, SubSeqProperties
<1>5. SubSeq(Stem(p), 1, Len(Stem(p))) = Stem(p)
    BY <1>4, SubSeqFull
<1> QED
    BY <1>1, <1>2, <1>4, <1>5 DEF IsStrictPrefix, IsPrefix

(* Two names have two paths, and none has the path of the root.            *)
LEMMA PathIsOwn ==
    ASSUME NEW S, "/" \in S, NEW f \in Seq(S), NEW g \in Seq(S)
    PROVE  /\ Path(f) = Path(g) => f = g
           /\ Path(f) = <<"/">> => f = <<>>
<1>1. <<"/">> \in Seq(S)
    OBVIOUS
<1>2. Path(f) = Path(g) => f = g
    BY <1>1, ConcatSimplifications DEF Path
<1>3. ASSUME NEW r \in Seq(S), r \o f = r
      PROVE  f = <<>>
    BY <1>3, ConcatEqualIffEmpty
<1> QED
    BY <1>1, <1>2, <1>3 DEF Path

(* What claims the path of a file, among pages without a directory, is the *)
(* file, or a name that begins with it.                                    *)
LEMMA ClaimOfPath ==
    ASSUME NEW S, "/" \in S, NEW f \in Seq(S), f # <<>>, NEW p \in Seq(S),
           Path(f) \in ToSet(UrlPaths(p)), IsPage(p) => FileName(p) = p
    PROVE  p = f \/ IsStrictPrefix(f, p)
<1>1. Path(f) = Path(p) \/ (IsPage(p) /\ Path(f) = Alias(p))
    BY DEF UrlPaths, ToSet
<1>2. CASE Path(f) = Path(p)
    BY <1>2, PathIsOwn
<1>3. CASE IsPage(p) /\ Path(f) = Alias(p)
  <2>1. Stem(p) \in Seq(S) /\ IsStrictPrefix(Stem(p), p)
      BY <1>3, StemIsPrefix
  <2>2. Path(f) = Path(Stem(p))
      BY <1>3, PathIsOwn DEF Alias, Path
  <2> QED
      BY <2>1, <2>2, PathIsOwn
<1> QED
    BY <1>1, <1>2, <1>3

(* Names are made of words.                                                *)
LEMMA NamesOfWords ==
    \A f \in Names : f \in Seq(Words \cup {"/"}) /\ f # <<>>
<1> SUFFICES ASSUME NEW f \in Names PROVE f \in Seq(Words \cup {"/"})
    BY NamesAssumption
<1>1. f \in Seq(ToSet(f)) /\ ToSet(f) \subseteq Words
    BY NamesAssumption DEF Words
<1> QED
    BY <1>1

(* The next name comes after all that are listed.                          *)
LEMMA InOrderInvariant == Spec => [](SiteInv /\ PageInv /\ InOrder)
<1>1. Init => InOrder
    BY DEF Init, InOrder
<1>2. ASSUME SiteInv, PageInv, InOrder, CollectFile PROVE InOrder'
  <2>1. /\ files \in Seq(Names) /\ Sorted \in Seq(Names) /\ pass = "collect"
        /\ at \in 1 .. Len(Sorted) /\ Len(Sorted) \in Nat /\ Len(files) \in Nat
        /\ Sorted[at] \in Names
      BY <1>2, SiteAssumption, InToSet DEF SiteInv, TypeOK, Round, Names, CollectFile
  <2>2. CASE files' = Listed
    <3>1. /\ Len(files') = Len(files) + 1
          /\ \A i \in 1 .. Len(files) : files'[i] = files[i]
          /\ files'[Len(files) + 1] = Sorted[at]
        BY <2>1, <2>2, AppendToSet DEF Listed
    <3>2. \A k, l \in 1 .. Len(Sorted) : Sorted[k] = Sorted[l] => k = l
        BY <2>1, SiteAssumption, InToSet DEF IsInjective
    <3>3. \A i \in 1 .. Len(files), k \in at .. Len(Sorted) : files[i] # Sorted[k]
        BY <1>2, <2>1 DEF PageInv, ListedOnce
    <3> SUFFICES ASSUME NEW i \in 1 .. Len(files'), NEW j \in 1 .. Len(files'),
                        NEW k \in 1 .. Len(Sorted), NEW l \in 1 .. Len(Sorted),
                        i < j, files'[i] = Sorted[k], files'[j] = Sorted[l]
                 PROVE  k < l
        BY DEF InOrder
    <3>4. i \in 1 .. Len(files) /\ files[i] = Sorted[k]
        BY <2>1, <3>1
    <3>5. CASE j = Len(files) + 1
      <4>1. l = at
          BY <2>1, <3>1, <3>2, <3>5
      <4> QED
          BY <2>1, <3>3, <3>4, <4>1
    <3>6. CASE j # Len(files) + 1
      <4>1. j \in 1 .. Len(files) /\ files[j] = Sorted[l]
          BY <2>1, <3>1, <3>6
      <4> QED
          BY <3>4, <4>1, <1>2 DEF InOrder
    <3> QED
        BY <3>5, <3>6
  <2>3. CASE UNCHANGED files
      BY <2>3, <1>2 DEF InOrder
  <2> QED
      BY <1>2, <2>2, <2>3 DEF CollectFile
<1>3. InOrder /\ UNCHANGED files => InOrder'
    BY DEF InOrder
<1>4. [Next]_vars => CollectFile \/ UNCHANGED files
    BY DEF Next, vars, MinifyAsset, InjectPage, CollectMetadata, MetadataPanics,
       EndPass, BuildVersion, Compile, NextFile
<1>5. SiteInv /\ PageInv /\ InOrder /\ [Next]_vars => InOrder'
    BY <1>2, <1>3, <1>4
<1> QED
    BY <1>1, <1>5, PageInvariant, PTL DEF Spec

(* If all pages are in public/ itself, every file has its own path, though *)
(* route() takes the first arm that matches and pages have two: a page     *)
(* whose alias is the name of a file begins with that name, so sort() puts *)
(* it after the file.                                                      *)
THEOREM OwnNamesWin == Spec => []OwnNameWins
<1>1. SiteInv /\ PageInv /\ InOrder => OwnNameWins
  <2> SUFFICES ASSUME SiteInv, PageInv, InOrder,
                      \A f \in ToSet(files) : IsPage(f) => FileName(f) = f,
                      NEW f \in ToSet(files)
               PROVE  Route(Path(f)).file = f
      BY DEF OwnNameWins
  <2>1. files \in Seq(Names) /\ DOMAIN files = 1 .. Len(files) /\ Len(files) \in Nat
      BY InToSet DEF SiteInv, TypeOK
  <2>2. Sorted \in Seq(Names) /\ DOMAIN Sorted = 1 .. Len(Sorted)
      BY SiteAssumption, InToSet DEF Names
  <2>3. PICK i \in 1 .. Len(files) : files[i] = f
      BY <2>1 DEF ToSet
  <2>4. Path(f) \in ToSet(UrlPaths(f))
      BY DEF UrlPaths, ToSet
  <2>5. i \in Claims(Path(f))
      BY <2>1, <2>3, <2>4 DEF Claims
  <2>6. ASSUME NEW j \in Claims(Path(f))
        PROVE  i <= j
    <3>1. j \in 1 .. Len(files) /\ Path(f) \in ToSet(UrlPaths(files[j]))
        BY <2>1 DEF Claims
    <3>2. f \in Names /\ files[j] \in Names /\ files[j] \in ToSet(files)
        BY <2>1, <2>3, <3>1, InToSet
    <3>3. files[j] = f \/ IsStrictPrefix(f, files[j])
      <4>1. f \in Seq(Words \cup {"/"}) /\ f # <<>> /\ files[j] \in Seq(Words \cup {"/"})
          BY <3>2, NamesOfWords
      <4>2. IsPage(files[j]) => FileName(files[j]) = files[j]
          BY <3>2
      <4> QED
          BY <3>1, <4>1, <4>2, ClaimOfPath
    <3>4. CASE files[j] = f
        BY <2>3, <3>1, <3>4 DEF PageInv, ListedOnce
    <3>5. CASE IsStrictPrefix(f, files[j])
      <4>1. PICK k, l \in 1 .. Len(Sorted) : Sorted[k] = f /\ Sorted[l] = files[j]
          BY <2>2, <3>2 DEF Names, ToSet
      <4>2. k < l
          BY <2>2, <3>5, <4>1, NamesAssumption
      <4>3. ~ (j < i)
          BY <2>1, <2>2, <2>3, <3>1, <4>1, <4>2 DEF InOrder
      <4> QED
          BY <2>1, <3>1, <4>3
    <3> QED
        BY <3>3, <3>4, <3>5
  <2>7. Claims(Path(f)) \subseteq Nat
      BY <2>1 DEF Claims
  <2>8. i = CHOOSE m \in Claims(Path(f)) : \A j \in Claims(Path(f)) : m <= j
      BY <2>5, <2>6, <2>7
  <2>9. Route(Path(f)) = FileAsset(i)
      BY <2>5, <2>8 DEF Route
  <2> QED
      BY <2>3, <2>9 DEF FileAsset
<1> QED
    BY <1>1, InOrderInvariant, PTL

-----------------------------------------------------------------------------
(* Policies.                                                               *)

(* No page has the extension of a script, style, image, font or medium.    *)
LEMMA KindsAreNoPages ==
    ASSUME NEW g, NEW d \in Directives, IsOf(g, d)
    PROVE  ~ IsPage(g)
<1>1. PICK e \in Extensions(d) : Extension(g) = <<e>>
    BY DEF IsOf
<1>2. e # "html"
    BY DEF Extensions, Directives, Optional
<1> QED
    BY <1>1, <1>2 DEF IsPage

(* Pages are allowed what they refer to.                                   *)
THEOREM PoliciesAllowPages == Spec => []PoliciesAllow
<1>1. SiteInv /\ PageInv => PoliciesAllow
  <2> SUFFICES ASSUME SiteInv, PageInv, Served,
                      NEW p \in ToSet(files), NEW inlineStyles \in BOOLEAN, IsPage(p)
               PROVE  /\ AllowsInline(Policy(p, inlineStyles)["script-src"], VersionScript)
                      /\ \A g \in Links[p] \cap ToSet(files), d \in {"script-src"} \cup Mentions[p] :
                            IsOf(g, d) => AllowsFile(Policy(p, inlineStyles)[d], Integrity(p, g))
      BY DEF PoliciesAllow
  <2>1. p \in Names
      BY InToSet DEF SiteInv, TypeOK, ToSet
  <2>2. Mentions[p] \subseteq Optional
      BY <2>1, CspAssumption
  <2>3. AllowsInline(Policy(p, inlineStyles)["script-src"], VersionScript)
      BY DEF AllowsInline, Policy, CspValue, Directives
  <2>4. ASSUME NEW g \in Links[p] \cap ToSet(files),
               NEW d \in {"script-src"} \cup Mentions[p], IsOf(g, d)
        PROVE  AllowsFile(Policy(p, inlineStyles)[d], Integrity(p, g))
    <3>1. d \in Directives
        BY <2>2 DEF Directives
    <3>2. Policy(p, inlineStyles)[d] = CspValue(d, inlineStyles)
        BY <3>1 DEF Policy
    <3>3. CASE ~ sri \/ d # "script-src"
        BY <3>2, <3>3 DEF CspValue, AllowsFile
    <3>4. CASE sri /\ d = "script-src"
      <4>1. ~ IsPage(g)
          BY <3>1, <2>4, KindsAreNoPages
      <4>2. g \in DOMAIN hashes /\ <<g, hashes[g]>> \in disk[p].integrity
          BY <3>4, <4>1, ServedPage
      <4>3. Integrity(p, g) = {hashes[g]}
        <5>1. hashes[g] \in Integrity(p, g)
            BY <4>2 DEF Integrity
        <5>2. ASSUME NEW h \in Integrity(p, g)
              PROVE  h = hashes[g]
          <6>1. PICK x \in disk[p].integrity : x[1] = g /\ x[2] = h
              BY <5>2 DEF Integrity
          <6>2. PICK f \in DOMAIN hashes : x = <<f, hashes[f]>>
              BY ServedPage
          <6> QED
              BY <6>1, <6>2
        <5> QED
            BY <5>1, <5>2
      <4>4. hashes[g] \in CollectHashes(d)
          BY <4>2, <2>4 DEF CollectHashes
      <4>5. hashes[g] \in CspValue(d, inlineStyles).digests
          BY <3>4, <4>4 DEF CspValue
      <4> QED
          BY <3>2, <4>3, <4>5 DEF AllowsFile
    <3> QED
        BY <3>3, <3>4
  <2> QED
      BY <2>3, <2>4
<1> QED
    BY <1>1, PageInvariant, PTL

=============================================================================
