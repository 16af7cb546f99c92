------------------------------- MODULE JobSpec -------------------------------
(* From the labels of a workflow job to the Kubernetes Job that runs it         *)
(* (internal/labelquery and internal/k8sjob/builder.go, as Dispatch uses them). *)
(* A label is a record of its key and value; one without "=" has the key "".    *)
EXTENDS Integers, FiniteSetsExt, SequencesExt

CONSTANTS
    Labels,     \* labels that a workflow job can have
    MaxLabels,  \* bound: labels of one job
    Repos,      \* records: owner and repo of a request
    LabelValues, \* those of their names that can be the value of a Kubernetes label
    Settings,   \* configurations of the scheduler
    Atoi,       \* the integers that label values can stand for
    Bytes,      \* the amounts of memory that they can
    Word        \* 2^63

ASSUME JobSpecAssumption ==
    /\ \A l \in Labels : DOMAIN l = {"key", "value"}
    /\ MaxLabels \in Nat /\ Word \in Nat \ {0}
    /\ \A v \in DOMAIN Atoi : Atoi[v] \in -Word .. Word - 1
    /\ \A v \in DOMAIN Bytes : Bytes[v] \in -Word .. Word - 1
    /\ \A s \in Settings : s.cpu \in 1 .. Word - 1 /\ s.memPerCPU \in DOMAIN Bytes

VARIABLES
    webhook, \* its labels, owner and repo, and the configuration it meets
    spec,    \* the RunnerSpec of the labels
    fate,    \* how far it has come
    job      \* the Kubernetes Job

specVars == <<webhook, spec, fate, job>>

Nothing == [none |-> TRUE]
Malformed == [malformed |-> TRUE]

JobSpecInit ==
    /\ webhook = Nothing /\ spec = Nothing /\ job = Nothing
    /\ fate = "idle"

\* The request of a webhook or of the reconciler.
ReceiveLabels ==
    /\ fate = "idle"
    /\ webhook' \in [labels : SeqOf(Labels, MaxLabels), of : Repos, cfg : Settings]
    /\ fate' = "received"
    /\ UNCHANGED <<spec, job>>

\* Mutant of Managed: looks at the first label only.
ManagedFirst(labels) == labels # <<>> /\ Head(labels).key = "runs-on"

Managed(labels) == \E l \in Range(labels) : l.key = "runs-on"

SkipUnmanaged ==
    /\ fate = "received" /\ ~Managed(webhook.labels)
    /\ fate' = "ignored"
    /\ UNCHANGED <<webhook, spec, job>>

CacheOn == {"s3", "true", "1"}
CacheOff == {"false", "0", ""}
KnownKeys == {"runs-on", "cpu", "mem", "arch", "pool", "cache", "image"}

\* What one more label makes of a RunnerSpec.
Read(sofar, l) ==
    IF sofar = Malformed THEN Malformed
    ELSE CASE l.key = "runs-on" /\ l.value # "" -> [sofar EXCEPT !.runID = l.value]
           [] l.key = "cpu" /\ l.value \in DOMAIN Atoi /\ Atoi[l.value] > 0 ->
                [sofar EXCEPT !.cpu = Atoi[l.value]]
           [] l.key = "mem" /\ l.value # "" -> [sofar EXCEPT !.mem = l.value]
           [] l.key = "arch" /\ l.value \in {"x64", "arm64"} ->
                [sofar EXCEPT !.arch = l.value]
           [] l.key = "pool" -> [sofar EXCEPT !.pool = l.value]
           [] l.key = "cache" /\ l.value \in CacheOn \cup CacheOff ->
                [sofar EXCEPT !.cache = l.value \in CacheOn]
           [] l.key = "image" -> [sofar EXCEPT !.image = l.value]
           [] l.key \notin KnownKeys \cup {""} -> [sofar EXCEPT !.raw = @ \cup {l.key}]
           [] OTHER -> Malformed

Defaults(cfg) ==
    [runID |-> "", cpu |-> cfg.cpu, mem |-> "", arch |-> cfg.arch, pool |-> "",
     cache |-> FALSE, image |-> "", raw |-> {}]

\* What the first n labels make of it.
Readings(labels, cfg) ==
    LET read[n \in 0 .. Len(labels)] ==
            IF n = 0 THEN Defaults(cfg) ELSE Read(read[n - 1], labels[n])
    IN  read

\* Mutant of Parse: the first label of a key counts, not the last.
ParseFirstWins(labels, cfg) ==
    LET parsed == Readings(Reverse(labels), cfg)[Len(labels)]
    IN  IF parsed # Malformed /\ parsed.runID = "" THEN Malformed ELSE parsed

\* A run ID is still missing if there was no runs-on label.
Parse(labels, cfg) ==
    LET parsed == Readings(labels, cfg)[Len(labels)]
    IN  IF parsed # Malformed /\ parsed.runID = "" THEN Malformed ELSE parsed

ParseLabels ==
    /\ fate = "received" /\ Managed(webhook.labels)
    /\ spec' = Parse(webhook.labels, webhook.cfg)
    /\ fate' = IF spec' = Malformed THEN "parse_labels" ELSE "parsed"
    /\ UNCHANGED <<webhook, job>>

\* Quantities are int64 and wrap around.
Wrapped(n) == ((n + Word) % (2 * Word)) - Word

memoryForSpec(cfg) ==
    IF spec.mem # "" THEN Bytes[spec.mem] ELSE Wrapped(Bytes[cfg.memPerCPU] * spec.cpu)

archToNodeSelectorValue(arch) == IF arch = "x64" THEN "amd64" ELSE arch

\* What the pod's node must be: pairs of a node label and its value.  The
\* defaults of Dispatcher.New name both labels.
NodeSelector ==
    {<<"arch", archToNodeSelectorValue(spec.arch)>>}
    \cup (IF spec.pool = "" THEN {} ELSE {<<"pool", spec.pool>>})

\* A name that cannot be the value of a label is left out.
JobLabels ==
    {"run_id", "job_id", "gh_job_id"}
    \cup (IF webhook.of.owner \in LabelValues THEN {"owner"} ELSE {})
    \cup (IF webhook.of.repo \in LabelValues THEN {"repo"} ELSE {})

\* The sidecar of a job without one has no environment.
CacheSidecarEnv(cfg) ==
    {"CACHE_PORT", "CACHE_PREFIX", "CACHE_BACKEND"}
    \cup (IF cfg.backend # "s3" THEN {} ELSE {"S3_ENDPOINT", "S3_BUCKET", "S3_REGION"})
    \cup (IF cfg.backend # "s3" \/ cfg.s3Secret = "" THEN {}
          ELSE {"S3_ACCESS_KEY", "S3_SECRET_KEY"})

\* With a cache, the runner's environment is replaced and not extended.
RunnerEnv ==
    IF spec.cache
    THEN {"ACTIONS_CACHE_URL", "ACTIONS_RESULTS_URL", "ACTIONS_CACHE_SERVICE_V2"}
    ELSE {"RUNNER_EPHEMERAL", "DISABLE_RUNNER_UPDATE"}

Built(cfg) ==
    [image |-> IF spec.image = "" THEN cfg.image ELSE spec.image,
     cpu |-> spec.cpu,
     memory |-> memoryForSpec(cfg),
     node |-> NodeSelector,
     env |-> RunnerEnv,
     sidecar |-> IF spec.cache THEN CacheSidecarEnv(cfg) ELSE {},
     tolerates |-> spec.pool = "spot" /\ cfg.spotKey # "",
     deadline |-> cfg.maxRuntime,
     labels |-> JobLabels]

BuildJob ==
    /\ fate = "parsed" /\ (spec.mem = "" \/ spec.mem \in DOMAIN Bytes)
    /\ job' = Built(webhook.cfg)
    /\ fate' = "built"
    /\ UNCHANGED <<webhook, spec>>

\* resource.MustParse of a mem label that is no quantity: the process dies.
BuildPanics ==
    /\ fate = "parsed" /\ spec.mem # "" /\ spec.mem \notin DOMAIN Bytes
    /\ fate' = "panic"
    /\ UNCHANGED <<webhook, spec, job>>

JobSpecNext ==
    ReceiveLabels \/ SkipUnmanaged \/ ParseLabels \/ BuildJob \/ BuildPanics

JobSpecSpec == JobSpecInit /\ [][JobSpecNext]_specVars

JobSpecTypeOK ==
    /\ fate \in {"idle", "received", "ignored", "parse_labels", "parsed", "built", "panic"}
    /\ fate \in {"idle", "received", "ignored"} <=> spec = Nothing
    /\ fate = "parse_labels" <=> spec = Malformed
    /\ fate = "built" <=> job # Nothing
    /\ fate \in {"parsed", "built", "panic"} =>
          /\ spec.cpu \in 1 .. Word - 1 /\ spec.cache \in BOOLEAN
          /\ spec.runID # "" /\ spec.arch \in {"x64", "arm64", webhook.cfg.arch}

-----------------------------------------------------------------------------
(* Properties.                                                               *)

\* The value of the last of a job's labels that have this key.
Asked(key, default) ==
    LET places == {i \in DOMAIN webhook.labels : webhook.labels[i].key = key}
    IN  IF places = {} THEN default ELSE webhook.labels[Max(places)].value

Refused(l) == Read(Defaults(webhook.cfg), l) = Malformed

\* Whatever the order of the labels, and whatever else is among them, a job
\* is ignored if none of them is a runs-on, refused if one of them alone
\* would be, and taken otherwise.
LabelsUnderstood ==
    fate # "idle" =>
    LET ours == \E l \in Range(webhook.labels) : l.key = "runs-on"
        bad == \E l \in Range(webhook.labels) : Refused(l)
    IN  /\ fate = "ignored" => ~ours
        /\ fate = "parse_labels" => ours /\ bad
        /\ fate \in {"parsed", "built", "panic"} => ours /\ ~bad

\* The pod of a job gets the memory, the node, the cache and the image that
\* the last label of each key asks for; memory by its CPUs if no label does,
\* as long as the product is an int64.
JobAsLabelled ==
    fate = "built" =>
      LET cfg == webhook.cfg
          mem == Asked("mem", "")
          pool == Asked("pool", "")
      IN  /\ job.image = Asked("image", cfg.image) \/ Asked("image", "") = ""
          /\ IF mem # "" THEN job.memory = Bytes[mem]
             ELSE Bytes[cfg.memPerCPU] * job.cpu \in -Word .. Word - 1 =>
                     job.memory = Bytes[cfg.memPerCPU] * job.cpu
          /\ Asked("cpu", "") # "" => job.cpu = Atoi[Asked("cpu", "")]
          /\ <<"arch", "amd64">> \in job.node <=>
                Asked("arch", cfg.arch) \in {"x64", "amd64"}
          /\ {n[2] : n \in {m \in job.node : m[1] = "pool"}} = {pool} \ {""}
          /\ job.tolerates => pool = "spot" /\ <<"pool", "spot">> \in job.node
          /\ job.sidecar # {} <=> Asked("cache", "") \in CacheOn
          /\ "ACTIONS_CACHE_URL" \in job.env => "CACHE_PORT" \in job.sidecar
=============================================================================
