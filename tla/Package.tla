------------------------------- MODULE Package -------------------------------
(***************************************************************************)
(* The upload package of an eligible session: built and validated by the   *)
(* program, sent as an archive, decoded and validated again by the         *)
(* training service.  The archive is a sequence of entries; it may differ   *)
(* from what this program builds before its digest is declared, or be      *)
(* harmed afterwards.  A digest is taken to tell contents apart, so it is  *)
(* the content itself.                                                     *)
(***************************************************************************)
EXTENDS Dataset

CONSTANTS MaxClips, MaxClipBytes, MaxPayloadBytes   \* PackageLimits, in samples

ASSUME PackageAssumption == {MaxClips, MaxClipBytes, MaxPayloadBytes} \subseteq Nat

VARIABLES built,    \* the archive as it was built
          archive,  \* the archive as it is or arrives
          declared  \* what the digest sent with it was computed over

packageVars == <<built, archive, declared>>

NoArchive == <<>>
Audio(i) == <<"audio", i>>
Text(i)  == <<"text", i>>

Size(payload) == IF payload.kind = "wav" THEN Length(payload.source) ELSE 0

\* build_package: each clip's audio and text, their digests, and what the
\* metrics of the dataset say of them.
Payloads(clipSeq) ==
  [name \in {Audio(i) : i \in 1..Len(clipSeq)} \cup {Text(i) : i \in 1..Len(clipSeq)} |->
    LET c == clipSeq[name[2]] IN
    IF name[1] = "audio" THEN [kind |-> "wav", source |-> c.source]
                         ELSE [kind |-> "txt", words |-> [n \in 1..Len(c.words) |-> c.words[n].id]]]

WordCount(clipSeq) == Accumulated([n \in 1..Len(clipSeq) |-> Len(clipSeq[n].words)])[Len(clipSeq)]

Manifest(clipSeq) ==
  [clipCount |-> Len(clipSeq), durationMs |-> Total(clipSeq),
   clips |-> [i \in 1..Len(clipSeq) |->
     [audio |-> Audio(i), text |-> Text(i), sha |-> Payloads(clipSeq)[Audio(i)],
      durationMs |-> DurationMs(Length(clipSeq[i].source)), wordCount |-> Len(clipSeq[i].words)]],
   quality |-> [durationMs |-> Total(clipSeq), wordCount |-> WordCount(clipSeq), clipCount |-> Len(clipSeq)],
   checksums |-> Payloads(clipSeq)]

-----------------------------------------------------------------------------
\* validate_payload_bounds
WithinBounds(payloads) ==
  /\ \A name \in DOMAIN payloads : Size(payloads[name]) <= MaxClipBytes
  /\ MapThenSumSet(LAMBDA name : Size(payloads[name]), DOMAIN payloads) <= MaxPayloadBytes

\* validate_checksum_coverage
ChecksumsCover_Mut(manifest, payloads) == DOMAIN manifest.checksums = DOMAIN payloads
ChecksumsCover(manifest, payloads) == manifest.checksums = payloads

\* validate_clip: the entry describes the two payloads its number names.
ClipValid(clip, i, payloads) ==
  /\ clip.audio = Audio(i) /\ clip.text = Text(i)
  /\ {clip.audio, clip.text} \subseteq DOMAIN payloads
  /\ payloads[clip.audio].kind = "wav" /\ clip.sha = payloads[clip.audio]
  /\ clip.durationMs = DurationMs(Size(payloads[clip.audio]))
  /\ payloads[clip.text].kind = "txt" /\ payloads[clip.text].words # <<>>
  /\ clip.wordCount = Len(payloads[clip.text].words)

\* The sums over the clips that the header and the metrics must give.
ObservedMs(entries)    == Accumulated([n \in 1..Len(entries) |-> entries[n].durationMs])[Len(entries)]
ObservedWords(entries) == Accumulated([n \in 1..Len(entries) |-> entries[n].wordCount])[Len(entries)]

\* validate_clips
ClipsValid(manifest, payloads) ==
  /\ Len(manifest.clips) = manifest.clipCount
  /\ \A i \in 1..Len(manifest.clips) : ClipValid(manifest.clips[i], i, payloads)
  /\ DOMAIN payloads = UNION {{c.audio, c.text} : c \in ToSet(manifest.clips)}

\* validate_package with validate_header and validate_quality.
ValidPackage(manifest, payloads) ==
  /\ manifest.clipCount \in 1..MaxClips
  /\ WithinBounds(payloads)
  /\ ChecksumsCover(manifest, payloads)
  /\ ClipsValid(manifest, payloads)
  /\ manifest.durationMs = ObservedMs(manifest.clips)
  /\ manifest.quality = [durationMs |-> manifest.durationMs, clipCount |-> manifest.clipCount,
                         wordCount  |-> ObservedWords(manifest.clips)]

-----------------------------------------------------------------------------
\* encode_archive: the manifest, then the payloads in the order of their names.
Entry(name, content) == [name |-> name, regular |-> TRUE, content |-> content]
ManifestName == <<"manifest", 0>>

EncodeArchive(manifest, payloads) ==
  LET Name(i) == IF i % 2 = 1 THEN Text((i \div 2) + 1) ELSE Audio(i \div 2) IN
  <<Entry(ManifestName, manifest)>>
  \o [i \in 1..Cardinality(DOMAIN payloads) |-> Entry(Name(i), payloads[Name(i)])]

\* decode_archive accepts flat regular files, each name once, the manifest
\* among them, none too large and not too many.
Decodable(entries) ==
  /\ Len(entries) <= MaxClips * 2 + 2
  /\ \A i \in 1..Len(entries) :
       /\ entries[i].regular
       /\ entries[i].name # ManifestName => Size(entries[i].content) <= MaxClipBytes
       /\ \A j \in 1..(i - 1) : entries[i].name # entries[j].name
  /\ \E i \in 1..Len(entries) : entries[i].name = ManifestName

ContentOf(entries, name) == LET i == CHOOSE i \in 1..Len(entries) : entries[i].name = name
                            IN  entries[i].content
DecodedPayloads(entries) ==
  [name \in {e.name : e \in ToSet(entries)} \ {ManifestName} |-> ContentOf(entries, name)]

\* process_next_job: pack what is eligible, or reject the job.
Pack ==
  /\ stage = "eligible"
  /\ LET manifest == Manifest(clips) payloads == Payloads(clips) IN
     IF ValidPackage(manifest, payloads)
     THEN /\ built' = EncodeArchive(manifest, payloads) /\ archive' = built'
          /\ UNCHANGED declared /\ stage' = "packed"
          /\ UNCHANGED <<session, windows, answers, spans, uncertain>>
     ELSE Reject /\ UNCHANGED packageVars
  /\ UNCHANGED datasetVars

\* How an archive may be harmed: an entry lost, doubled, emptied, replaced by
\* something that is no file or swapped with another; a number of the manifest
\* changed.
Harmed(entries) ==
  LET manifest == ContentOf(entries, ManifestName)
      OtherManifest(m) == [entries EXCEPT ![1].content = m]
  IN  {RemoveAt(entries, i) : i \in 1..Len(entries)}
      \cup {Append(entries, entries[i]) : i \in 1..Len(entries)}
      \cup {[entries EXCEPT ![i].regular = FALSE] : i \in 1..Len(entries)}
      \cup {[entries EXCEPT ![i].content = [kind |-> "wav", source |-> Interval(0, 0)]] : i \in 2..Len(entries)}
      \cup {[entries EXCEPT ![i].content = entries[j].content] : i, j \in 2..Len(entries)}
      \cup {OtherManifest([manifest EXCEPT !.clipCount = @ + 1]),
            OtherManifest([manifest EXCEPT !.durationMs = @ + 1]),
            OtherManifest([manifest EXCEPT !.clips[1].wordCount = @ + 1]),
            OtherManifest([manifest EXCEPT !.quality.wordCount = @ + 1])}

\* upload_job declares the digest of the bytes it sends.  `early` harm was
\* done before that: another program packed the archive.
Transfer(harmed, early) ==
  /\ stage = "packed"
  /\ archive' \in (IF harmed THEN Harmed(archive) ELSE {archive})
  /\ declared' = IF early THEN archive' ELSE archive
  /\ stage' = "sent"
  /\ UNCHANGED <<session, windows, answers, spans, uncertain, built>> /\ UNCHANGED datasetVars

\* admit, up to what it asks of consent and quotas.
Admit ==
  /\ stage = "sent"
  /\ stage' = IF /\ declared = archive
                 /\ Decodable(archive)
                 /\ ValidPackage(ContentOf(archive, ManifestName), DecodedPayloads(archive))
              THEN "admitted" ELSE "refused"
  /\ UNCHANGED <<session, windows, answers, spans, uncertain>>
  /\ UNCHANGED datasetVars /\ UNCHANGED packageVars

-----------------------------------------------------------------------------
\* Every eligible session within the limits can be packed: what build_package
\* makes of it passes validate_package, rounding, counts and bounds included.
EligibleCanBePacked ==
  stage = "eligible" /\ Len(clips) <= MaxClips => ValidPackage(Manifest(clips), Payloads(clips))

\* An archive that arrives whole is admitted, and one that is admitted holds
\* exactly the clips and the metrics that were built: no single loss or change
\* on the way goes unnoticed, not even one made before the digest was declared
\* (build_package, decode_archive, validate_package; "fails the same validation
\* the server applies").
AdmittedAsBuilt ==
  /\ stage = "admitted" =>
       /\ ContentOf(archive, ManifestName) = Manifest(clips)
       /\ DecodedPayloads(archive) = Payloads(clips)
  /\ stage = "refused" => archive # built
=============================================================================
