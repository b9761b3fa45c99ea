-------------------------------- MODULE Media --------------------------------
(***************************************************************************)
(* Files of the WeChat gateway, in both directions.  The loop of main      *)
(* downloads what a message carries, decrypts it into one directory and    *)
(* gives the paths to the entry of the agent's queue (gateway/src/main.rs, *)
(* ilink/download.rs, router/router.rs); the reply processor encrypts the  *)
(* file an agent answers with, uploads it and sends a reference to it      *)
(* (gateway/src/ilink/media.rs, ilink/types.rs).  The two run at the same  *)
(* time and share the local files and the platform's CDN.                  *)
(*                                                                         *)
(* Messages here are admitted, have an id and go to one agent: the rest of *)
(* main's loop is in WechatGateway, the attempts of a send are in          *)
(* SendPath.  A file is written at once.                                   *)
(***************************************************************************)
EXTENDS Integers, FiniteSets, Sequences

CONSTANTS
    Inbound,     \* messages of users: [id, items], an item [kind, text, ref, key]
    Uploaded,    \* CDN reference -> the object the platform has at the start
    Refs,        \* references the CDN may give: bounds the uploads
    OwnFiles,    \* path -> content: files of the agent
    Extension,   \* path of a file of the agent -> the kind its name says
    Replies,     \* the file paths of replies
    Keys,        \* AES keys
    Garbage,     \* what another key makes of a ciphertext, and any of a block that is not one
    Block,       \* 16 bytes
    Configured,  \* the path of GW_CDN_BASE_URL, split
    None         \* nothing

ASSUME BlockAssumption == Block \in 1..255
ASSUME MediaAssumption == Refs \cap DOMAIN Uploaded = {} /\ None \notin Keys \cup Refs \cup DOMAIN Uploaded

VARIABLES
    files,     \* path -> content, or None
    cdn,       \* reference -> object, or None
    now,       \* main: None or [msg, left, got]: items being downloaded, and those that were
    last,      \* the last entry of the agent's queue, [msg, media], or None
    held,      \* history: one of the entries the agent has taken, whichever, or None
    job,       \* the reply processor: None, or the reply and what is known of its upload
    sent       \* the media messages the platform took

inVars  == <<now, last, held>>
outVars == <<job, sent>>
vars    == <<files, cdn, inVars, outVars>>

----------------------------------------------------------------------------
(* AES-128-ECB with PKCS7 padding: blocks are replaced one by one, so what  *)
(* a ciphertext shows is its key and the padded bytes.                     *)

\* Variant: a content of whole blocks is not padded.
PadLenNone(d) == (Block - (Len(d) % Block)) % Block

PadLen(d) == Block - (Len(d) % Block)

Pad(d) == d \o [i \in 1..PadLen(d) |-> PadLen(d)]

\* The last byte says how much to take off; it is not checked further.
Unpad(s) ==
    IF s # << >> /\ s[Len(s)] \in 1..Block THEN SubSeq(s, 1, Len(s) - s[Len(s)]) ELSE s

Encrypt(k, d) == [key |-> k, data |-> Pad(d)]

\* What is too short for a last block is filled up with zeros, which makes it a
\* block of another ciphertext.
Blocks(s) ==
    LET rest == Len(s) % Block IN
    IF rest = 0 THEN s ELSE SubSeq(s, 1, Len(s) - rest) \o Garbage

Decrypt(k, c) == IF k = c.key THEN Unpad(Blocks(c.data)) ELSE Garbage

Hex(k)    == <<"hex", k>>
Base64(x) == <<"base64", x>>

----------------------------------------------------------------------------
(* Addresses at the CDN, and the two numberings of kinds.                  *)

CdnPath     == <<"c2c">>      \* the one the platform serves
BuiltInBase == <<"c2c">>      \* ILINK_CDN_BASE_URL

\* cdn_base: /c2c is taken off, and build_cdn_download_url adds it.
DownloadPath ==
    LET n == Len(Configured) IN
    Append(IF n > 0 /\ Configured[n] = "c2c" THEN SubSeq(Configured, 1, n - 1) ELSE Configured, "c2c")

\* upload_full_url, or upload_param behind ILINK_CDN_BASE_URL and /c2c.
UploadPath(answer) == IF answer = "full" THEN CdnPath ELSE Append(BuiltInBase, "c2c")

ItemType   == [text |-> 1, image |-> 2, voice |-> 3, file |-> 4, video |-> 5]
UploadType == [image |-> 1, video |-> 2, file |-> 3, voice |-> 4]

MediaKinds == DOMAIN UploadType

\* media_types_from_extension: files in the cache have no extension.
KindOf(path) == IF path \in DOMAIN Extension THEN Extension[path] ELSE "file"

Announced(path) == UploadType[KindOf(path)]

----------------------------------------------------------------------------
(* From users to the agent.                                                *)

Entry(m, media) == [msg |-> m, media |-> media]

HasText(m) == \E i \in DOMAIN m.items : m.items[i].text

\* try_download_media: no files, and nothing without a reference and a key.
Downloadable(item) ==
    /\ item.kind \in {"image", "voice", "video"}
    /\ item.ref # None
    /\ \E k \in Keys : item.key = Hex(k)

KeyOf(item) == CHOOSE k \in Keys : item.key = Hex(k)

\* Variant: files are named by their kind, and one id.
CachedByKind(m, item) == <<(CHOOSE n \in Inbound : TRUE).id, item.kind>>

\* Files are named by the message and the kind.
Cached(m, item) == <<m.id, item.kind>>

CachePaths == {m.id : m \in Inbound} \X {"image", "voice", "video"}
Paths      == DOMAIN OwnFiles \cup CachePaths

\* The platform gives no id twice, and what a message refers to is at the CDN;
\* the agent's own files are not in the directory of the downloads.
ASSUME MessagesAssumption ==
    /\ \A m, n \in Inbound : m.id = n.id => m = n
    /\ \A m \in Inbound :
          /\ Len(m.items) \in Nat \ {0} /\ DOMAIN m.items = 1..Len(m.items)
          /\ \A i \in DOMAIN m.items : m.items[i].ref \in DOMAIN Uploaded \cup {None}
    /\ DOMAIN OwnFiles \cap CachePaths = {}
    /\ Replies \subseteq Seq(Paths) \ {<< >>}

Byte == 0..255

ASSUME ContentsAssumption ==
    /\ \A r \in DOMAIN Uploaded : Uploaded[r].data \in Seq(Byte)
    /\ \A p \in DOMAIN OwnFiles : OwnFiles[p] \in Seq(Byte)
    /\ Garbage \in Seq(Byte)
    /\ \A p \in DOMAIN Extension : Extension[p] \in MediaKinds
    /\ None \notin [key: Keys, data: Seq(Byte), type: 1..4, aeskey: {Hex(k) : k \in Keys},
                    filesize: Nat, rawsize: Nat]

\* extract_media_info: a first item that is a file, without a path yet.
Extract(m) ==
    IF m.items[1].kind \in MediaKinds THEN <<[kind |-> m.items[1].kind, path |-> None]>> ELSE << >>

Init ==
    /\ files = [p \in Paths |-> IF p \in DOMAIN OwnFiles THEN OwnFiles[p] ELSE None]
    /\ cdn = [r \in Refs \cup DOMAIN Uploaded |-> IF r \in Refs THEN None ELSE Uploaded[r]]
    /\ now = None /\ last = None /\ held = None
    /\ job = None /\ sent = {}

\* The message is queued, and its downloads start; of one without a text
\* handle_incoming makes an error, which the user is told.
Receive(m) ==
    /\ now = None /\ HasText(m)
    /\ last' = Entry(m, Extract(m))
    /\ now' = [msg |-> m, left |-> {i \in DOMAIN m.items : Downloadable(m.items[i])}, got |-> {}]
    /\ UNCHANGED <<files, cdn, held, outVars>>

\* One of the downloads ends; they run at the same time.
Download(i) ==
    LET item == now.msg.items[i] IN
    /\ DownloadPath = CdnPath /\ cdn[item.ref] # None
    /\ files' = [files EXCEPT ![Cached(now.msg, item)] = Decrypt(KeyOf(item), cdn[item.ref])]
    /\ now' = [now EXCEPT !.left = @ \ {i}, !.got = @ \cup {i}]

\* No answer, a status, a disk that is full: the item is left out.
DownloadFails(i) ==
    /\ now' = [now EXCEPT !.left = @ \ {i}]
    /\ UNCHANGED files

DownloadEnds ==
    /\ now # None
    /\ \E i \in now.left : Download(i) \/ DownloadFails(i)
    /\ UNCHANGED <<cdn, last, held, outVars>>

\* The media of a message are what was downloaded, in the order of its items.
Downloaded ==
    LET Nth(n) == CHOOSE i \in now.got : Cardinality({j \in now.got : j <= i}) = n
        Item(i) == now.msg.items[i]
    IN [n \in 1..Cardinality(now.got) |->
          [kind |-> Item(Nth(n)).kind, path |-> Cached(now.msg, Item(Nth(n)))]]

\* update_last_media, if the agent has not taken the entry.
Update ==
    /\ now # None /\ now.left = {}
    /\ last' = IF now.got = {} \/ last = None THEN last ELSE [last EXCEPT !.media = Downloaded]
    /\ now' = None
    /\ UNCHANGED <<files, cdn, held, outVars>>

Poll ==
    /\ last # None
    /\ held' \in {held, last} /\ last' = None
    /\ UNCHANGED <<files, cdn, now, outVars>>

----------------------------------------------------------------------------
(* From the agent to users.                                                *)

\* Nothing is known of an upload yet, or any more.
Bare(paths, stage) ==
    [paths |-> paths, stage |-> stage, data |-> None, key |-> None, url |-> None, ref |-> None]

\* Variant: an upload that fails is tried again.
SorryNever == job' = [job EXCEPT !.stage = IF @ = "upload" THEN "ask" ELSE "sorry"]

Sorry == job' = Bare(job.paths, "sorry")

At(stage) == job # None /\ job.stage = stage

TakeReply ==
    /\ job = None
    /\ \E paths \in Replies : job' = Bare(paths, "read")
    /\ UNCHANGED <<files, cdn, sent, inVars>>

\* The first file is read, and a key made for it.
Read ==
    /\ At("read") /\ files[job.paths[1]] # None
    /\ \E k \in Keys : job' = [job EXCEPT !.data = files[job.paths[1]], !.key = k, !.stage = "ask"]
    /\ UNCHANGED <<files, cdn, sent, inVars>>

\* getuploadurl: a full URL, a parameter for one, or neither.
GetUploadUrl ==
    /\ At("ask")
    /\ \E answer \in {"full", "param", "neither"} :
         IF answer = "neither" THEN Sorry
         ELSE job' = [job EXCEPT !.url = UploadPath(answer), !.stage = "upload"]
    /\ UNCHANGED <<files, cdn, sent, inVars>>

Ciphertext == Encrypt(job.key, job.data)

\* What the platform has after an upload: the ciphertext, and what getuploadurl
\* was told of it.
Object ==
    [key |-> job.key, data |-> Ciphertext.data, type |-> Announced(job.paths[1]),
     aeskey |-> Hex(job.key), filesize |-> Len(Ciphertext.data), rawsize |-> Len(job.data)]

\* The CDN stores what is posted to its path, and names it in a header - unless
\* its answer is lost, or lacks the header.
Upload ==
    /\ At("upload") /\ job.url = CdnPath
    /\ \E r \in Refs :
         /\ cdn[r] = None
         /\ cdn' = [cdn EXCEPT ![r] = Object]
         /\ \/ job' = [job EXCEPT !.ref = r, !.stage = "send"]
            \/ Sorry
    /\ UNCHANGED <<files, sent, inVars>>

\* Reading, asking or uploading fails: the user is sent the error instead.
UploadFails ==
    /\ job # None /\ job.stage \in {"read", "ask", "upload"}
    /\ Sorry
    /\ UNCHANGED <<files, cdn, sent, inVars>>

ApiKey(k) == Base64(Hex(k))

\* build_media_reply.
MediaMessage ==
    [type |-> ItemType[KindOf(job.paths[1])], ref |-> job.ref, aes_key |-> ApiKey(job.key),
     mid_size |-> Len(Ciphertext.data), path |-> job.paths[1]]

\* The media message, or the text in its stead, is sent or not.
Send ==
    /\ job # None /\ job.stage \in {"send", "sorry"}
    /\ sent' \in {sent, IF job.stage = "send" THEN sent \cup {MediaMessage} ELSE sent}
    /\ job' = Bare(Tail(job.paths), "notes")
    /\ UNCHANGED <<files, cdn, inVars>>

\* The other files are named in a text each.
Note ==
    /\ At("notes")
    /\ job' = IF job.paths = << >> THEN None ELSE [job EXCEPT !.paths = Tail(@)]
    /\ UNCHANGED <<files, cdn, sent, inVars>>

----------------------------------------------------------------------------

\* A crash: what is on the disk and at the platform stays.
Restart ==
    /\ now' = None /\ last' = None /\ job' = None
    /\ UNCHANGED <<files, cdn, held, sent>>

Processor == Read \/ GetUploadUrl \/ Upload \/ UploadFails \/ Send \/ Note

Next ==
    \/ \E m \in Inbound : Receive(m)
    \/ DownloadEnds \/ Update \/ Poll
    \/ TakeReply \/ Processor
    \/ Restart

\* The processor's requests have time limits.  The client of the downloads has
\* none: they may never end.
Spec == Init /\ [][Next]_vars /\ WF_vars(Processor)

----------------------------------------------------------------------------
(* Properties.                                                             *)

Plain(item) == Decrypt(cdn[item.ref].key, cdn[item.ref])

Entries == {held, last} \ {None}

\* What a download of an item of the message m and of a kind may leave in a file.
FromItem(m, kind, d) ==
    \E i \in DOMAIN m.items :
      LET item == m.items[i] IN
      item.kind = kind /\ Downloadable(item) /\ d \in {Plain(item), Garbage}

\* Whatever is downloaded meanwhile or later, a path in an entry leads to the
\* content of an item of the entry's own message, of the entry's kind.  (Two
\* items of one kind share a file: the agent may find either in it.)
PathLeadsToOwn ==
    \A e \in Entries : \A n \in DOMAIN e.media :
      e.media[n].path # None => FromItem(e.msg, e.media[n].kind, files[e.media[n].path])

\* A media message the platform took opens: its reference, decrypted with its
\* key, is the file the agent named - one of its own, or one that came with a
\* message -; the sizes and the kind it was announced with are those of what
\* was uploaded.
SentOpens ==
    \A s \in sent :
      LET o == cdn[s.ref] IN
      /\ s.aes_key = Base64(o.aeskey) /\ o.aeskey = Hex(o.key)
      /\ IF s.path \in DOMAIN OwnFiles THEN Unpad(o.data) = OwnFiles[s.path]
         ELSE \E m \in Inbound : m.id = s.path[1] /\ FromItem(m, s.path[2], Unpad(o.data))
      /\ s.mid_size = Len(o.data) /\ o.filesize = Len(o.data) /\ Len(o.data) % Block = 0
      /\ o.rawsize = Len(Unpad(o.data))
      /\ \E k \in MediaKinds : s.type = ItemType[k] /\ o.type = UploadType[k]

\* The reply processor gets done with every reply, though a download may keep
\* main's loop for ever.
ReplyEnds == job # None ~> job = None
=============================================================================
