------------------------------- MODULE MCParts -------------------------------
(* The parts of the system that share no state with the dispatches.  A run     *)
(* chooses one of them and lets it move: no step of one is of any concern to   *)
(* another, so TLC explores the sum of their state spaces, not the product.    *)
EXTENDS CacheProtocol, JobStore, AppToken, GitHubPages, Shutdown,
    RetryDelay, JobSpec

CONSTANTS c1, c2, c3, c4

VARIABLE part

MCPodOf == (c1 :> "p" @@ c2 :> "p" @@ c3 :> "q" @@ c4 :> "q")

\* "go", "go/mod" and "go-1", where "1" and "mod" are parts.
MCKeys == <<<<"go">>, <<"go", "-", "1">>, <<"go", "/", "mod">>>>
Go == MCKeys[1]
Go1 == MCKeys[2]
GoMod == MCKeys[3]

MCSaves ==
    (c1 :> {<<Go1, "v">>, <<GoMod, "v">>} @@ c2 :> {<<Go, "v">>, <<Go1, "w">>}
     @@ c3 :> {<<Go1, "v">>} @@ c4 :> {})
MCSearches ==
    (c1 :> {} @@ c2 :> {} @@ c3 :> {}
     @@ c4 :> {<<GoMod, "v", {Go}>>, <<Go1, "v", {}>>, <<Go1, "w", {Go}>>, <<Go, "v", {}>>})
MCSize == (c1 :> 1 @@ c2 :> 1 @@ c3 :> 2 @@ c4 :> 1)

MCFilters == {RowStatuses, {"running"}}

MCPreamble == <<c1, c2>>

Label(k, v) == [key |-> k, value |-> v]
MCLabels ==
    {Label("runs-on", "7"), Label("runs-on", ""), Label("", ""), Label("gpu", "a100"),
     Label("cpu", "4"), Label("cpu", "0"), Label("cpu", "9"),
     Label("mem", "3Gi"), Label("mem", "much"), Label("arch", "arm64"), Label("arch", "ppc64"),
     Label("pool", "spot"), Label("cache", "s3"), Label("cache", "0"), Label("image", "own")}
MCAtoi == ("4" :> 4 @@ "9" :> 9 @@ "0" :> 0)
MCBytes == ("2Gi" :> 2 @@ "3Gi" :> 3)
MCSettings ==
    {[cpu |-> 2, memPerCPU |-> "2Gi", arch |-> "x64", image |-> "runner", backend |-> "s3",
      s3Secret |-> "credentials", spotKey |-> "spot", maxRuntime |-> 21600],
     [cpu |-> 1, memPerCPU |-> "3Gi", arch |-> "amd64", image |-> "runner",
      backend |-> "memory", s3Secret |-> "", spotKey |-> "", maxRuntime |-> 0]}
MCRepos == {[owner |-> "org", repo |-> "_"]}

Init ==
    /\ part \in {"cache", "store", "token", "pages", "shutdown", "retry", "labels"}
    /\ CacheInit /\ StoreInit /\ TokenInit /\ PagesInit
    /\ ShutdownInit /\ RetryInit /\ JobSpecInit

\* All variables but those of one part.
Next ==
    /\ part' = part
    /\ \/ /\ part = "cache" /\ CacheNext
          /\ UNCHANGED <<storeVars, tokenVars, pagesVars, shutdownVars, retryVars, specVars>>
       \/ /\ part = "store" /\ StoreNext
          /\ UNCHANGED <<cacheVars, tokenVars, pagesVars, shutdownVars, retryVars, specVars>>
       \/ /\ part = "token" /\ TokenNext
          /\ UNCHANGED <<cacheVars, storeVars, pagesVars, shutdownVars, retryVars, specVars>>
       \/ /\ part = "pages" /\ PagesNext
          /\ UNCHANGED <<cacheVars, storeVars, tokenVars, shutdownVars, retryVars, specVars>>
       \/ /\ part = "shutdown" /\ ShutdownNext
          /\ UNCHANGED <<cacheVars, storeVars, tokenVars, pagesVars, retryVars, specVars>>
       \/ /\ part = "retry" /\ RetryNext
          /\ UNCHANGED <<cacheVars, storeVars, tokenVars, pagesVars, shutdownVars, specVars>>
       \/ /\ part = "labels" /\ JobSpecNext
          /\ UNCHANGED <<cacheVars, storeVars, tokenVars, pagesVars, shutdownVars, retryVars>>

Spec ==
    /\ Init
    /\ [][Next]_<<part, cacheVars, storeVars, tokenVars, pagesVars, shutdownVars, retryVars, specVars>>
    /\ CacheFairness /\ StoreFairness /\ TokenFairness /\ ShutdownFairness
=============================================================================
