----------------------------- MODULE MkPayload ------------------------------
(***************************************************************************)
(* mk_payload (microdroid/signature/mk_payload.cc) makes the payload disk  *)
(* of a microdroid: a partition with the Microdroid Signature, and one for *)
(* every APEX and for the APK, each followed by a filler that aligns the   *)
(* partition and ends with the size of the file.                           *)
(*                                                                         *)
(* The disk refers to all of its parts by path, and a later run for the    *)
(* same output writes over the signature and the fillers of an earlier     *)
(* one.  The tool looks at the size of a file twice, once for the          *)
(* signature and once for the filler, and others may replace the file at   *)
(* any time.                                                               *)
(*                                                                         *)
(* A path stands for itself resolved against the directory of the config.  *)
(* The length prefix of the signature is one element of its content, as is *)
(* every field of the message.                                             *)
(***************************************************************************)
EXTENDS Integers, Sequences, FiniteSets, Functions

CONSTANTS Paths,        \* of APEX and APK files
          Links,        \* those of them that are symbolic links
          Sizes,        \* that a file may have: bounds the input
          ApexInfo,     \* the active system APEXes: a function from name to path
          Configs,      \* the configs that mk_payload is run with
          WORD,         \* one more than the largest uint32_t
          SIZEOF,       \* sizeof(uint32_t)
          ALIGN,        \* what AlignToPartitionSize rounds up to
          MaxRuns       \* bounds the runs

\* In the place of a name or a path: a JSON value that is not a string.
NotAString == "null"

ASSUME PayloadAssumption ==
    /\ Links \subseteq Paths
    /\ Sizes \subseteq Nat
    /\ {WORD, SIZEOF, ALIGN} \subseteq Nat \ {0}
    /\ MaxRuns \in Nat

ASSUME ConfigAssumption ==
    /\ \A name \in DOMAIN ApexInfo : ApexInfo[name] \in Paths
    /\ \A c \in Configs :
          /\ c.system_apexes \in Seq(DOMAIN ApexInfo \cup STRING)
          /\ {c.apexes, c.apk} \subseteq Seq(Paths \cup {NotAString})

VARIABLES
    size,        \* of the file behind each path, NoFile if there is none
    pc,          \* idle, sign, fill; and ok or failed, the exit of the last run
    config,      \* of the run in progress or of the last one, with all APEXes
    done,        \* how many files the current loop has been through
    apex_sizes,  \* what MakeSignature has collected
    signature,   \* the content of output-signature
    fillers,     \* the files output.0, output.1, ...
    disk,        \* the partitions of the composite disk at output
    replaced,    \* history: a file was replaced since the last run began
    silent,      \* history: the last run did not notice that a write failed
    runs         \* how many runs there were

work == <<config, done, apex_sizes>>
output == <<signature, fillers, disk>>
payload_history == <<replaced, silent, runs>>
payload_vars == <<size, pc, config, done, apex_sizes, signature, fillers, disk, replaced, silent, runs>>

NoFile == -1
NoConfig == [apexes |-> <<>>, apk |-> <<>>]

PayloadInit ==
    /\ size \in [Paths -> Sizes]
    /\ pc = "idle"
    /\ config = NoConfig
    /\ done = 0
    /\ apex_sizes = <<>>
    /\ signature = <<>>
    /\ fillers = <<>>
    /\ disk = <<>>
    /\ replaced = FALSE
    /\ silent = FALSE
    /\ runs = 0

-----------------------------------------------------------------------------
(* Files and their encodings *)

\* lstat does not follow a link, whose own size is that of the path in it.
LinkSize == 1

GetFileSize(path) == (IF path \in Links THEN LinkSize ELSE size[path]) % WORD

\* External: cuttlefish.
AlignToPartitionSize(n) == ((n + ALIGN - 1) \div ALIGN) * ALIGN

\* Mutant: does not count the word at the end.
FillerTight(file_size) ==
    [len |-> AlignToPartitionSize(file_size) - file_size, word |-> file_size]

\* ftruncate to what is missing of the partition, and the size as its last word.
Filler(file_size) ==
    [len |-> AlignToPartitionSize(file_size + SIZEOF) - file_size, word |-> file_size]

\* The protobuf message, by its fields.
Body(c, sizes) ==
    <<"version">> \o [k \in 1 .. Len(c.apexes) |-> [name |-> c.apexes[k], size |-> sizes[k]]]
                  \o [k \in 1 .. Len(c.apk) |-> [name |-> c.apk[k], partition |-> "microdroid-apk"]]

WriteMicrodroidSignature(body) == <<Len(body) % WORD>> \o body

\* The body that a guest reads, or nothing if the content is too short.
ReadMicrodroidSignature(content) ==
    IF Len(content) < 1 \/ Len(content) < 1 + content[1] THEN <<>>
    ELSE SubSeq(content, 2, 1 + content[1])

\* The signature's partition, which has no filler: zeros up to its end.
SignaturePartition(content) ==
    content \o [k \in 1 .. AlignToPartitionSize(Len(content)) - Len(content) |-> 0]

-----------------------------------------------------------------------------
(* main *)

Fails == pc' = "failed"

\* LoadConfig and ParseJson take lists and an APK that are missing for empty ones,
\* and refuse a name or a path that is not a string.
ParseJson(c) == NotAString \notin Range(c.system_apexes \o c.apexes \o c.apk)

\* LoadSystemApexes puts the system APEXes after those of the config.
LoadSystemApexes(c) ==
    [apexes |-> c.apexes \o [k \in 1 .. Len(c.system_apexes) |-> ApexInfo[c.system_apexes[k]]],
     apk |-> c.apk]

\* A system APEX that is not active is an error.
SystemApexesFound(c) == Range(c.system_apexes) \subseteq DOMAIN ApexInfo

Ready == pc \in {"idle", "ok", "failed"} /\ runs < MaxRuns

\* Mutant: goes on with what an earlier run collected.
StartKeepingSizes(c) ==
    /\ Ready /\ ParseJson(c) /\ SystemApexesFound(c)
    /\ pc' = "sign"
    /\ config' = LoadSystemApexes(c)
    /\ done' = 0
    /\ runs' = runs + 1
    /\ UNCHANGED <<size, apex_sizes, output, replaced, silent>>

\* LoadConfig and LoadSystemApexes; nothing is written before they succeed.
Start(c) ==
    /\ Ready
    /\ IF ParseJson(c) /\ SystemApexesFound(c)
       THEN pc' = "sign" /\ config' = LoadSystemApexes(c)
       ELSE Fails /\ config' = NoConfig
    /\ done' = 0
    /\ apex_sizes' = <<>>
    /\ replaced' = FALSE
    /\ silent' = FALSE
    /\ runs' = runs + 1
    /\ UNCHANGED <<size, output>>

\* One round of the loop in MakeSignature.
SignApex ==
    /\ pc = "sign" /\ done < Len(config.apexes)
    /\ IF size[config.apexes[done + 1]] = NoFile
       THEN Fails /\ UNCHANGED <<done, apex_sizes>>
       ELSE /\ apex_sizes' = Append(apex_sizes, GetFileSize(config.apexes[done + 1]))
            /\ done' = done + 1
            /\ UNCHANGED pc
    /\ UNCHANGED <<size, config, output, payload_history>>

\* The stream is opened, which empties the file, before the message is serialized.
\* A message that cannot be serialized ends the run.  The stream is not asked
\* whether it could be opened and written: the old file stays, or an empty one is
\* left, and the run goes on.
WriteSignature ==
    /\ pc = "sign" /\ done = Len(config.apexes)
    /\ \/ /\ signature' = WriteMicrodroidSignature(Body(config, apex_sizes))
          /\ pc' = "fill"
          /\ UNCHANGED silent
       \/ /\ signature' \in {signature, <<>>}
          /\ pc' = "fill"
          /\ silent' = TRUE
       \/ /\ signature' \in {signature, <<>>}      \* in SerializeToString
          /\ Fails
          /\ UNCHANGED silent
    /\ done' = 0
    /\ UNCHANGED <<size, config, apex_sizes, fillers, disk, replaced, runs>>

Payloads == config.apexes \o config.apk

\* Mutant: the APK comes first.
PayloadsApkFirst == config.apk \o config.apexes

\* The order in which MakePayload adds partitions.
PartitionOrder == Payloads

Put(seq, k, value) == [j \in 1 .. (IF k > Len(seq) THEN k ELSE Len(seq)) |->
                          IF j = k THEN value ELSE seq[j]]

\* add_partition: GenerateFiller for the next file, which may fail.
AddPartition ==
    LET path == PartitionOrder[done + 1]
    IN  /\ pc = "fill" /\ done < Len(Payloads)
        /\ \/ /\ size[path] # NoFile
              /\ fillers' = Put(fillers, done + 1, Filler(GetFileSize(path)))
              /\ done' = done + 1
              /\ UNCHANGED pc
           \/ /\ Fails                              \* in lstat or in open
              /\ UNCHANGED <<done, fillers>>
           \/ /\ size[path] # NoFile                \* in ftruncate, lseek or write
              /\ Fails
              /\ fillers' = Put(fillers, done + 1, [len |-> 0, word |-> 0])
              /\ UNCHANGED done
        /\ UNCHANGED <<size, config, apex_sizes, signature, disk, payload_history>>

\* External: CreateCompositeDisk writes which files make up each partition.
CreateDisk ==
    /\ pc = "fill" /\ done = Len(Payloads)
    /\ disk' = [k \in 1 .. Len(Payloads) |-> [path |-> PartitionOrder[k], filler |-> k]]
    /\ pc' = "ok"
    /\ UNCHANGED <<size, work, signature, fillers, payload_history>>

-----------------------------------------------------------------------------
(* Others *)

Replace(path, n) ==
    /\ n # size[path]
    /\ size' = [size EXCEPT ![path] = n]
    /\ replaced' = TRUE
    /\ UNCHANGED <<pc, work, output, silent, runs>>

PayloadNext ==
    \/ \E c \in Configs : Start(c)
    \/ SignApex
    \/ WriteSignature
    \/ AddPartition
    \/ CreateDisk
    \/ \E path \in Paths, n \in Sizes \cup {NoFile} : Replace(path, n)

PayloadSpec == PayloadInit /\ [][PayloadNext]_payload_vars

-----------------------------------------------------------------------------
(* Properties *)

\* The run is at a file of its config and has the size of every APEX that it is
\* past, so that the signature has one entry for each of them (mk_payload.cc,
\* the loops of MakeSignature and MakePayload).
PayloadTypeOK ==
    /\ size \in [Paths -> Sizes \cup {NoFile}]
    /\ pc \in {"idle", "sign", "fill", "ok", "failed"}
    /\ done \in 0 .. Len(Payloads)
    /\ pc = "sign" => Len(apex_sizes) = done
    /\ pc \in {"fill", "ok"} => Len(apex_sizes) = Len(config.apexes)
    /\ \A k \in DOMAIN fillers : fillers[k].len \in Nat /\ fillers[k].word \in 0 .. WORD - 1
    /\ replaced \in BOOLEAN /\ silent \in BOOLEAN
    /\ runs \in 0 .. MaxRuns

\* A file whose size mk_payload can tell.
Measurable(path) == path \notin Links /\ size[path] \in 0 .. WORD - 1

\* After a run that succeeded, and while the files are what they were during it,
\* every payload partition is aligned and ends with the size of its file in a
\* word that is no part of the file (README.md of microdroid/signature, "At the
\* end of each payload partition the size of the original payload file (APEX or
\* APK) is stored"), whatever earlier runs left in the fillers.
SizesRecoverable ==
    pc = "ok" /\ ~replaced =>
        \A k \in DOMAIN disk : Measurable(disk[k].path) =>
            LET filler == fillers[disk[k].filler]
            IN  /\ filler.word = size[disk[k].path]
                /\ filler.len >= SIZEOF
                /\ (size[disk[k].path] + filler.len) % ALIGN = 0

\* What a guest reads in the first partition of a disk that a run has made lists
\* the following partitions in their order, the APK last (microdroid_signature
\* .proto, "The payload apexes are mapped to the partitions following the
\* signature partition"), with the sizes at their ends if no file was replaced
\* between the two looks at it; unless the write of it failed unnoticed.
SignatureDescribesDisk ==
    LET body == ReadMicrodroidSignature(SignaturePartition(signature))
    IN  pc = "ok" /\ ~silent =>
            /\ Len(body) = 1 + Len(disk)
            /\ \A k \in DOMAIN disk : body[k + 1].name = disk[k].path
            /\ ~replaced => \A k \in 1 .. Len(config.apexes) :
                                body[k + 1].size = fillers[disk[k].filler].word
=============================================================================
