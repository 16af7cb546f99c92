---------------------------- MODULE CacheProtocol ----------------------------
(* The cache sidecar (cache-sidecar/internal): cache actions of a job reserve, *)
(* upload, finalize and look up entries at the sidecar of their own pod, and   *)
(* the sidecars of a repository share one S3 bucket.                           *)
(*                                                                             *)
(* A key is a sequence of parts, some of which are slashes; a name of the      *)
(* bucket is one, too.  Keys have no empty and no dotted parts, which path.Join*)
(* would drop.  The archive a client uploads is identified with the client.    *)
EXTENDS Naturals, Sequences, FiniteSets, SequencesExt

CONSTANTS
    Clients,    \* cache actions, one operation each
    PodOf,      \* the pod of each client, with its sidecar
    KeyOrder,   \* the keys in the order of their names
    Versions,
    Slash,      \* the part of a key that is a slash
    Saves,      \* of each client: the entries <<key, version>> it may save
    Searches,   \* of each client: the lookups <<key, version, restore keys>> it may do
    Size,       \* of each client: the size of its archive
    NoArchive,  \* no client: no object of that name
    PageSize    \* objects in a page of a listing

Keys == Range(KeyOrder)
Parts == UNION {Range(key) : key \in Keys}

ASSUME CacheAssumption ==
    /\ KeyOrder \in Seq(Seq(Parts) \ {<<>>}) /\ IsInjective(KeyOrder)
    /\ PodOf \in [Clients -> Range(PodOf)]
    /\ Slash \notin Versions
    /\ NoArchive \notin Clients
    /\ PageSize \in Nat \ {0}
    /\ Size \in [Clients -> Nat \ {0}]
    /\ \A c \in Clients :
          /\ Saves[c] \subseteq Keys \X Versions
          /\ Searches[c] \subseteq Keys \X Versions \X SUBSET Seq(Parts)

VARIABLES
    objects,  \* of the bucket: the archive under each name
    pending,  \* of each sidecar: the reserved entries, by upload id; never freed
    call,     \* of each client: how far its operation is
    request,  \* of each client: <<key, version, restore keys>>
    upload,   \* of each client: the id in its upload URL
    listed,   \* of each client: the places of the keys its lookup has listed
    hit,      \* of each client: the key that its lookup matched, <<>> for none
    got,      \* of each client: the archive it has downloaded
    saved,    \* history: the entries finalized
    known     \* history, of each client: those finalized when its lookup began

cacheVars == <<objects, pending, call, request, upload, listed, hit, got, saved, known>>

Places == 1 .. Len(KeyOrder)

\* path.Join of version and key, under the repository's prefix.
ObjectKey(key, version) == <<version, Slash>> \o key

Names == {ObjectKey(key, version) : key \in Keys, version \in Versions}

\* The path of a download URL, decoded again: its key may have slashes.
BlobPath(key, version) == key \o <<Slash, version>>

\* handleBlobDownload takes what precedes the first slash for the key.
DownloadName(path) ==
    LET slash == CHOOSE i \in DOMAIN path :
                     path[i] = Slash /\ \A j \in 1 .. i - 1 : path[j] # Slash
    IN  SubSeq(path, slash + 1, Len(path)) \o <<Slash>> \o SubSeq(path, 1, slash - 1)

Requests == Keys \X Versions \X SUBSET Seq(Parts)

CacheTypeOK ==
    /\ objects \in [Names -> Clients \cup {NoArchive}]
    /\ pending \in [Range(PodOf) -> Seq(Keys \X Versions)]
    /\ call \in [Clients -> {"idle", "reserved", "uploaded", "saved", "listing", "hit",
                             "missed", "restored", "lost", "failed"}]
    /\ request \in [Clients -> Requests \cup {<<>>}]
    /\ upload \in [Clients -> Nat]
    /\ \A c \in Clients :
          /\ call[c] # "idle" => request[c] # <<>>
          /\ call[c] \in {"reserved", "uploaded", "saved"} =>
                upload[c] \in DOMAIN pending[PodOf[c]]
    /\ listed \in [Clients -> SUBSET Places]
    /\ hit \in [Clients -> Keys \cup {<<>>}]
    /\ got \in [Clients -> Clients \cup {NoArchive}]
    /\ saved \subseteq Keys \X Versions
    /\ known \in [Clients -> SUBSET (Keys \X Versions)]

CacheInit ==
    /\ objects = [n \in Names |-> NoArchive]
    /\ pending = [p \in Range(PodOf) |-> <<>>]
    /\ call = [c \in Clients |-> "idle"]
    /\ request = [c \in Clients |-> <<>>]
    /\ upload = [c \in Clients |-> 0]
    /\ listed = [c \in Clients |-> {}]
    /\ hit = [c \in Clients |-> <<>>]
    /\ got = [c \in Clients |-> NoArchive]
    /\ saved = {}
    /\ known = [c \in Clients |-> {}]

CallGoto(c, from, to) == call[c] = from /\ call' = [call EXCEPT ![c] = to]

Entry(c) == <<request[c][1], request[c][2]>>

-----------------------------------------------------------------------------
(* Saving.                                                                   *)

\* Mutant of Reserve: the id is read before the lock, and given twice.
ReserveUnlocked(c) ==
    /\ CallGoto(c, "idle", "reserved")
    /\ \E e \in Saves[c] :
          /\ request' = [request EXCEPT ![c] = <<e[1], e[2], {}>>]
          /\ pending' = [pending EXCEPT ![PodOf[c]] = <<e>>]
          /\ upload' = [upload EXCEPT ![c] = 1]
    /\ UNCHANGED <<objects, listed, hit, got, saved, known>>

\* CreateCacheEntry.
Reserve(c) ==
    /\ CallGoto(c, "idle", "reserved")
    /\ \E e \in Saves[c] :
          /\ request' = [request EXCEPT ![c] = <<e[1], e[2], {}>>]
          /\ pending' = [pending EXCEPT ![PodOf[c]] = Append(@, e)]
          /\ upload' = [upload EXCEPT ![c] = Len(pending[PodOf[c]]) + 1]
    /\ UNCHANGED <<objects, listed, hit, got, saved, known>>

\* The whole archive replaces the object; a client without a positive answer
\* gives up.
Upload(c) ==
    /\ CallGoto(c, "reserved", "uploaded") \/ CallGoto(c, "reserved", "failed")
    /\ LET e == pending[PodOf[c]][upload[c]]
       IN  objects' = [objects EXCEPT ![ObjectKey(e[1], e[2])] = c]
    /\ UNCHANGED <<pending, request, upload, listed, hit, got, saved, known>>

\* A call that gets an error from the store: a save is refused, a lookup is
\* answered with "cache miss", a download with 404.
StoreFails(c) ==
    /\ \E from \in {"reserved", "uploaded", "listing", "hit"} : CallGoto(c, from, "failed")
    /\ UNCHANGED <<objects, pending, request, upload, listed, hit, got, saved, known>>

\* FinalizeCacheEntryUpload: there is an object, of the size the client says,
\* if it says one.
Finalize(c) ==
    /\ call[c] = "uploaded"
    /\ LET archive == objects[ObjectKey(request[c][1], request[c][2])]
       IN  \/ /\ archive # NoArchive
              /\ CallGoto(c, "uploaded", "saved")
              /\ \E want \in {0, Size[c]} : want > 0 => Size[archive] = want
              /\ saved' = saved \cup {Entry(c)}
           \/ /\ archive # NoArchive => Size[archive] # Size[c]
              /\ CallGoto(c, "uploaded", "failed")
              /\ UNCHANGED saved
    /\ UNCHANGED <<objects, pending, request, upload, listed, hit, got, known>>

-----------------------------------------------------------------------------
(* Looking up.                                                               *)

\* GetCacheEntryDownloadURL, and GET .../cache of the first protocol.
Search(c) ==
    /\ CallGoto(c, "idle", "listing")
    /\ \E r \in Searches[c] : request' = [request EXCEPT ![c] = r]
    /\ known' = [known EXCEPT ![c] = saved]
    /\ UNCHANGED <<objects, pending, upload, listed, hit, got, saved>>

Stored(version) == {i \in Places : objects[ObjectKey(KeyOrder[i], version)] # NoArchive}

\* ListObjectsV2: what follows the place that the continuation token stands for.
Page(version, start) ==
    LET left == {i \in Stored(version) : i > start}
    IN  {i \in left : Cardinality({j \in left : j <= i}) <= PageSize}

\* Mutant of IsLast: the continuation token of a page is not used.
IsLastAlways(version, page) == TRUE

\* IsTruncated and NextContinuationToken of a page.
IsLast(version, page) == \A i \in Stored(version) : \E j \in page : i <= j

\* FindKeys: a candidate that is a key, or else all keys that begin with it.
Matches(places, candidates) ==
    UNION {LET exact == {i \in places : KeyOrder[i] = k}
           IN  IF exact # {} THEN exact ELSE {i \in places : IsPrefix(k, KeyOrder[i])}
           : k \in candidates \ {<<>>}}

\* The answer after the last page: of the matches the first by name.
Answer(c, places) ==
    LET matches == Matches(places, {request[c][1]} \cup request[c][3])
    IN  \/ matches = {} /\ CallGoto(c, "listing", "missed") /\ UNCHANGED hit
        \/ /\ matches # {}
           /\ CallGoto(c, "listing", "hit")
           /\ hit' = [hit EXCEPT ![c] = KeyOrder[Min(matches)]]

\* Mutant of ListPage: every request asks for the first page.
ListFirstPage(c) ==
    /\ call[c] = "listing"
    /\ LET page == Page(request[c][2], 0)
       IN  /\ listed' = [listed EXCEPT ![c] = @ \cup page]
           /\ \/ IsLast(request[c][2], page) /\ Answer(c, listed'[c])
              \/ ~IsLast(request[c][2], page) /\ UNCHANGED <<call, hit>>
    /\ UNCHANGED <<objects, pending, request, upload, got, saved, known>>

\* One page; objects may come in between two.
ListPage(c) ==
    /\ call[c] = "listing"
    /\ LET page == Page(request[c][2], Max({0} \cup listed[c]))
       IN  /\ listed' = [listed EXCEPT ![c] = @ \cup page]
           /\ \/ IsLast(request[c][2], page) /\ Answer(c, listed'[c])
              \/ ~IsLast(request[c][2], page) /\ UNCHANGED <<call, hit>>
    /\ UNCHANGED <<objects, pending, request, upload, got, saved, known>>

\* GET of the URL in the answer.
Download(c) ==
    /\ call[c] = "hit"
    /\ LET name == DownloadName(BlobPath(hit[c], request[c][2]))
           archive == IF name \in Names THEN objects[name] ELSE NoArchive
       IN  /\ CallGoto(c, "hit", IF archive = NoArchive THEN "lost" ELSE "restored")
           /\ got' = [got EXCEPT ![c] = archive]
    /\ UNCHANGED <<objects, pending, request, upload, listed, hit, saved, known>>

CacheNext ==
    \E c \in Clients :
        \/ Reserve(c) \/ Upload(c) \/ Finalize(c) \/ StoreFails(c)
        \/ Search(c) \/ ListPage(c) \/ Download(c)

CacheSpec == CacheInit /\ [][CacheNext]_cacheVars

\* The sidecar goes on with a listing that it has begun.
CacheFairness == \A c \in Clients : WF_cacheVars(ListPage(c))

-----------------------------------------------------------------------------
(* Properties.                                                               *)

\* An entry finalized before a lookup begins is never missed, however many
\* pages the listing has and whatever is saved meanwhile; a lookup of it
\* without restore keys matches it and no other.
SavedIsFound ==
    \A c \in Clients :
        call[c] \in {"missed", "hit"} /\ Entry(c) \in known[c] =>
            /\ call[c] = "hit"
            /\ request[c][3] = {} => hit[c] = request[c][1]

\* What a lookup offers can be downloaded, and is an archive that was saved
\* under the key and version it names, with saves of other entries and other
\* versions at the same time; for a key without slashes.
HitDownloads ==
    \A c \in Clients :
        /\ call[c] = "restored" => Entry(got[c]) = <<hit[c], request[c][2]>>
        /\ call[c] = "lost" => Slash \in Range(hit[c])

\* Every lookup is answered, though entries are saved while it lists.
LookupEnds == \A c \in Clients : call[c] = "listing" ~> call[c] # "listing"
=============================================================================
