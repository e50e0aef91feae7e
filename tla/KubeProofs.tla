----------------------------- MODULE KubeProofs ------------------------------
(***************************************************************************)
(* Proofs about the Kubernetes provider.  KubeSpawn: for any pods, files and*)
(* concurrency.  KubeCleaner: for any length of a minute, interval, lead and*)
(* number of upserts in progress.                                          *)
(***************************************************************************)
EXTENDS KubeSpawn, KubeCleaner, TLAPS

-----------------------------------------------------------------------------
(* kubeClient.ts: spawning pods                                            *)

\* What wget may find of a file.
Usable(f) == server[f] = "whole" \/ (server[f] = "partial" /\ f \in doubled)

Uploads(p, f) == stage[p] = "upload" /\ Current(p) = f

Fetches(p, f) == stage[p] = "fetch" /\ Current(p) = f

\* What was cached or is being fetched has been uploaded once, whole.
Served ==
    \A f \in File :
      f \in cache \/ (\E p \in Pod : Fetches(p, f)) => Usable(f)

\* A second upload, next to the first or after it, is known to doubled.
Counted ==
    \A p \in Pod, f \in File : Uploads(p, f) =>
      /\ server[f] # "absent"
      /\ f \in cache => f \in doubled
      /\ \A q \in Pod : Fetches(q, f) => f \in doubled
      /\ \A q \in Pod \ {p} : Uploads(q, f) => f \in doubled

Has(p, f) == got[p][f] = "whole" \/ (got[p][f] = "partial" /\ f \in doubled)

Copied == \A p \in Pod : \A i \in 1..copied[p] : Has(p, Files[p][i])

\* The magic file comes after the last file.
MagicLast ==
    /\ \A p \in Pod : stage[p] = "magic" \/ p \in magic => copied[p] = Len(Files[p])
    /\ \A p \in Pod : pod[p] \in {"running", "waiting"} => p \in magic

FilesInv == Served /\ Counted /\ Copied /\ MagicLast

-----------------------------------------------------------------------------
\* What Advance() goes to is a stage, and none of the copying.
LEMMA AfterType ==
  ASSUME NEW p \in Pod, stage[p] \in Polling \cup Commands \cup {"apply", "magic"}
  PROVE  After(p, stage[p]) \in Stages \ {"upload", "fetch", "magic"}
BY DEF After, Polling, Commands, Stages

\* With a file left to copy, the current one is a file.
LEMMA CurrentType ==
  ASSUME TypeOK, NEW p \in Pod, copied[p] < Len(Files[p])
  PROVE  /\ Current(p) \in File
         /\ copied[p] + 1 \in 1..Len(Files[p])
         /\ copied[p] \in Nat /\ Len(Files[p]) \in Nat
<1>1. Files[p] \in Seq(File) /\ copied[p] \in Nat /\ Len(Files[p]) \in Nat
  BY KubeSpawnAssumption DEF TypeOK
<1>2. copied[p] + 1 \in 1..Len(Files[p])
  BY <1>1
<1> QED BY <1>1, <1>2 DEF Current

\* Advance() keeps its part of the type invariant.
LEMMA AdvanceType ==
  ASSUME TypeOK, NEW p \in Pod, Advance(p),
         stage[p] \in Polling \cup Commands \cup {"apply", "magic"}
  PROVE  /\ stage' \in [Pod -> Stages]
         /\ polls' \in [Pod -> 0..Polls]
         /\ \A q \in Pod : stage'[q] \in Polling => polls'[q] > 0
         /\ \A q \in Pod : stage'[q] \in {"upload", "fetch"} => stage'[q] = stage[q]
         /\ \A q \in Pod : stage'[q] = "magic" => stage'[q] = stage[q]
<1>1. After(p, stage[p]) \in Stages \ {"upload", "fetch", "magic"}
  BY AfterType
<1>2. stage \in [Pod -> Stages] /\ polls \in [Pod -> 0..Polls]
  BY DEF TypeOK
<1>3. Polls \in Nat /\ Polls > 0
  BY KubeSpawnAssumption
<1>4. /\ stage' = [stage EXCEPT ![p] = After(p, stage[p])]
      /\ polls' = [polls EXCEPT ![p] =
                     IF After(p, stage[p]) \in Polling THEN Polls ELSE 0]
  BY DEF Advance
<1>5. \A q \in Pod : stage[q] \in Polling => polls[q] > 0
  BY DEF TypeOK
<1> QED BY <1>1, <1>2, <1>3, <1>4, <1>5

(***************************************************************************)
(* The type invariant of the spawns: while a file is copied there is one   *)
(* to copy, and a retry() in progress has calls left.                      *)
(***************************************************************************)
THEOREM TypeCorrect == Spec => []TypeOK
<1>1. Init => TypeOK
  <2> SUFFICES ASSUME Init PROVE TypeOK
    OBVIOUS
  <2>1. \A p \in Pod : Len(Files[p]) \in Nat
    BY KubeSpawnAssumption
  <2> QED BY <2>1, KubeSpawnAssumption DEF Init, TypeOK, Stages, Polling
<1>2. TypeOK /\ [Next]_vars => TypeOK'
  <2> SUFFICES ASSUME TypeOK, [Next]_vars PROVE TypeOK'
    OBVIOUS
  <2> USE DEF fileVars, kubeVars
  <2>0. Polls \in Nat /\ Polls > 0 /\ \A p \in Pod : Len(Files[p]) \in Nat
    BY KubeSpawnAssumption
  <2>1. ASSUME NEW p \in Pod, Begin(p) PROVE TypeOK'
    BY <2>1, <2>0 DEF Begin, TypeOK, Stages, Polling
  <2>2. ASSUME NEW p \in Pod, Apply(p) PROVE TypeOK'
    BY <2>2, AdvanceType DEF Apply, TypeOK
  <2>3. ASSUME NEW p \in Pod, Command(p) PROVE TypeOK'
    BY <2>3, AdvanceType DEF Command, TypeOK
  <2>4. ASSUME NEW p \in Pod, CommandFails(p) PROVE TypeOK'
    BY <2>4, <2>0 DEF CommandFails, Fail, TypeOK, Stages, Polling
  <2>5. ASSUME NEW p \in Pod, Poll(p) PROVE TypeOK'
    <3>1. CASE Seen(p) /\ Advance(p)
      BY <3>1, <2>5, AdvanceType DEF Poll, TypeOK
    <3>2. CASE Fail(p)
      BY <3>2, <2>5, <2>0 DEF Poll, Fail, TypeOK, Stages, Polling
    <3>3. CASE polls[p] > 1 /\ polls' = [polls EXCEPT ![p] = @ - 1] /\ UNCHANGED stage
      BY <3>3, <2>5, <2>0 DEF Poll, TypeOK
    <3> QED BY <2>5, <3>1, <3>2, <3>3 DEF Poll
  <2>6. ASSUME NEW p \in Pod, AllCopied(p) PROVE TypeOK'
    BY <2>6 DEF AllCopied, TypeOK, Stages, Polling
  <2>7. ASSUME NEW p \in Pod, UseCache(p) PROVE TypeOK'
    BY <2>7 DEF UseCache, TypeOK, Stages, Polling
  <2>8. ASSUME NEW p \in Pod, Upload(p) PROVE TypeOK'
    <3>1. Current(p) \in File
      BY <2>8, CurrentType DEF Upload
    <3> QED BY <3>1, <2>8 DEF Upload, TypeOK, Stages, Polling
  <2>9. ASSUME NEW p \in Pod, UploadEnds(p) PROVE TypeOK'
    <3>1. Current(p) \in File
      BY <2>9, CurrentType DEF UploadEnds, TypeOK
    <3> QED BY <3>1, <2>9 DEF UploadEnds, TypeOK, Stages, Polling
  <2>10. ASSUME NEW p \in Pod, UploadFails(p) PROVE TypeOK'
    <3>1. Current(p) \in File
      BY <2>10, CurrentType DEF UploadFails, TypeOK
    <3>2. server' \in [File -> {"absent", "partial", "whole"}]
      BY <3>1, <2>10 DEF UploadFails, TypeOK
    <3> QED BY <3>2, <2>10, <2>0 DEF UploadFails, Fail, TypeOK, Stages, Polling
  <2>11. ASSUME NEW p \in Pod, Fetch(p) PROVE TypeOK'
    <3>1. copied[p] < Len(Files[p])
      BY <2>11 DEF Fetch, TypeOK
    <3>2. Current(p) \in File /\ copied[p] + 1 <= Len(Files[p]) /\ copied[p] + 1 \in Nat
      BY <3>1, CurrentType
    <3>3. server[Current(p)] \in {"partial", "whole"}
      BY <3>2, <2>11 DEF Fetch, TypeOK
    <3>4. got' \in [Pod -> [File -> {"none", "partial", "whole"}]]
      BY <3>2, <3>3, <2>11 DEF Fetch, TypeOK
    <3>5. copied' \in [Pod -> Nat] /\ \A q \in Pod : copied'[q] <= Len(Files[q])
      BY <3>2, <2>11 DEF Fetch, TypeOK
    <3>6. /\ stage' \in [Pod -> Stages]
          /\ \A q \in Pod : stage'[q] \in Polling => polls'[q] > 0
          /\ \A q \in Pod : stage'[q] \in {"upload", "fetch"} => q # p /\ stage[q] = stage'[q]
      BY <2>11 DEF Fetch, TypeOK, Stages, Polling
    <3>7. \A q \in Pod : stage'[q] \in {"upload", "fetch"} => copied'[q] < Len(Files[q])
      BY <3>6, <2>11 DEF Fetch, TypeOK
    <3> QED BY <3>4, <3>5, <3>6, <3>7, <2>11 DEF Fetch, TypeOK
  <2>12. ASSUME NEW p \in Pod, PutMagic(p) PROVE TypeOK'
    BY <2>12, AdvanceType DEF PutMagic, TypeOK
  <2>13. ASSUME NEW p \in Pod, TunnelOpens(p) PROVE TypeOK'
    BY <2>13 DEF TunnelOpens, TypeOK, Stages, Polling
  <2>14. ASSUME NEW p \in Pod, TunnelExits(p) PROVE TypeOK'
    BY <2>14 DEF TunnelExits, TypeOK
  <2>15. ASSUME NEW p \in Pod, Kubernetes(p) PROVE TypeOK'
    BY <2>15 DEF Kubernetes, StartTransfer, StartMain, SpecWritten, Break, TypeOK
  <2>16. CASE UNCHANGED vars
    BY <2>16 DEF vars, TypeOK
  <2> QED BY <2>1, <2>2, <2>3, <2>4, <2>5, <2>6, <2>7, <2>8, <2>9, <2>10, <2>11,
             <2>12, <2>13, <2>14, <2>15, <2>16 DEF Next, Step
<1> QED BY <1>1, <1>2, PTL DEF Spec

-----------------------------------------------------------------------------
\* A step of a spawn that neither touches the files nor changes what is being
\* uploaded or fetched keeps the first three parts.
LEMMA FilesKept ==
  ASSUME FilesInv, UNCHANGED fileVars,
         \A q \in Pod : stage'[q] \in {"upload", "fetch"} => stage'[q] = stage[q]
  PROVE  Served' /\ Counted' /\ Copied'
<1> USE DEF FilesInv, fileVars
<1>1. \A q \in Pod, f \in File :
        /\ Fetches(q, f)' => Fetches(q, f)
        /\ Uploads(q, f)' => Uploads(q, f)
  BY DEF Fetches, Uploads, Current
<1>2. Served'
  BY <1>1 DEF Served, Usable
<1>3. Counted'
  BY <1>1 DEF Counted
<1>4. Copied'
  BY DEF Copied, Has
<1> QED BY <1>2, <1>3, <1>4

\* What is fetched by a spawn that takes f from the cache is in the cache.
LEMMA UseCacheKeeps ==
  ASSUME TypeOK, FilesInv, NEW p \in Pod, UseCache(p)
  PROVE  Served' /\ Counted' /\ Copied'
<1> USE DEF FilesInv, UseCache, fileVars
<1>1. \A q \in Pod, f \in File :
        /\ Fetches(q, f)' => Fetches(q, f) \/ f \in cache
        /\ Uploads(q, f)' => Uploads(q, f)
  BY DEF Fetches, Uploads, Current, TypeOK
<1>2. Served'
  BY <1>1 DEF Served, Usable
<1>3. Counted'
  BY <1>1 DEF Counted
<1>4. Copied'
  BY DEF Copied, Has
<1> QED BY <1>2, <1>3, <1>4

\* An upload of a file that was ever begun before makes the file doubled.
LEMMA UploadKeeps ==
  ASSUME TypeOK, FilesInv, NEW p \in Pod, Upload(p)
  PROVE  Served' /\ Counted' /\ Copied'
<1> USE DEF FilesInv
<1> DEFINE g == Current(p)
<1>0. g \in File /\ stage[p] = "copy"
  BY CurrentType DEF Upload
<1>1. /\ g \notin cache /\ cache' = cache /\ got' = got /\ copied' = copied
      /\ server' = [server EXCEPT ![g] = "partial"]
      /\ doubled' = IF server[g] = "absent" THEN doubled ELSE doubled \cup {g}
      /\ stage' = [stage EXCEPT ![p] = "upload"]
  BY DEF Upload
<1>2. /\ server'[g] = "partial"
      /\ \A f \in File : f # g => server'[f] = server[f]
      /\ \A f \in doubled : f \in doubled'
      /\ server[g] # "absent" => g \in doubled'
  BY <1>0, <1>1 DEF TypeOK
<1>3. \A q \in Pod, f \in File :
        /\ Fetches(q, f)' => Fetches(q, f)
        /\ Uploads(q, f)' => Uploads(q, f) \/ (q = p /\ f = g)
  BY <1>1 DEF Fetches, Uploads, Current, TypeOK
<1> HIDE DEF g
<1>4. Served'
  BY <1>0, <1>1, <1>2, <1>3 DEF Served, Usable
<1>5. Counted'
  <2>1. (\E q \in Pod : Fetches(q, g)) => g \in doubled'
    BY <1>0, <1>2 DEF Served, Usable
  <2>2. (\E q \in Pod : Uploads(q, g)) => g \in doubled'
    BY <1>0, <1>2 DEF Counted
  <2> QED BY <2>1, <2>2, <1>0, <1>1, <1>2, <1>3 DEF Counted
<1>6. Copied'
  BY <1>1, <1>2 DEF Copied, Has
<1> QED BY <1>4, <1>5, <1>6

\* The only uploader of a file leaves it whole.
LEMMA UploadEndsKeeps ==
  ASSUME TypeOK, FilesInv, NEW p \in Pod, UploadEnds(p)
  PROVE  Served' /\ Counted' /\ Copied'
<1> USE DEF FilesInv
<1> DEFINE g == Current(p)
<1>0. g \in File /\ stage[p] = "upload" /\ Uploads(p, g)
  BY CurrentType DEF UploadEnds, TypeOK, Uploads
<1>1. PICK s \in {"partial", "whole"} :
        /\ Uploaders(g) = {p} => s = "whole"
        /\ server' = [server EXCEPT ![g] = s]
  BY DEF UploadEnds
<1>2. /\ cache' = cache \cup {g} /\ got' = got /\ copied' = copied
      /\ doubled' = doubled
      /\ stage' = [stage EXCEPT ![p] = "fetch"]
  BY DEF UploadEnds
<1>3. /\ server'[g] = s
      /\ \A f \in File : f # g => server'[f] = server[f]
  BY <1>0, <1>1 DEF TypeOK
<1>4. \A q \in Pod, f \in File :
        /\ Fetches(q, f)' => Fetches(q, f) \/ f = g
        /\ Uploads(q, f)' => Uploads(q, f) /\ q # p
  BY <1>2 DEF Fetches, Uploads, Current, TypeOK
<1>5. s = "whole" \/ g \in doubled
  <2> SUFFICES ASSUME Uploaders(g) # {p} PROVE g \in doubled
    BY <1>1
  <2>1. p \in Uploaders(g)
    BY <1>0 DEF Uploaders, TypeOK
  <2>2. PICK q \in Pod \ {p} : Uploads(q, g)
    BY <2>1 DEF Uploaders, Uploads
  <2> QED BY <2>2, <1>0 DEF Counted
<1> HIDE DEF g
<1>6. Served'
  BY <1>0, <1>1, <1>2, <1>3, <1>4, <1>5 DEF Served, Usable
<1>7. Counted'
  <2>1. \A q \in Pod \ {p} : Uploads(q, g) => g \in doubled
    BY <1>0 DEF Counted
  <2> QED BY <2>1, <1>0, <1>1, <1>2, <1>3, <1>4 DEF Counted
<1>8. Copied'
  BY <1>2 DEF Copied, Has
<1> QED BY <1>6, <1>7, <1>8

\* A failed upload may truncate the file of others, which is doubled then.
LEMMA UploadFailsKeeps ==
  ASSUME TypeOK, FilesInv, NEW p \in Pod, UploadFails(p)
  PROVE  Served' /\ Counted' /\ Copied'
<1> USE DEF FilesInv
<1> DEFINE g == Current(p)
<1>0. g \in File /\ Uploads(p, g)
  BY CurrentType DEF UploadFails, TypeOK, Uploads
<1>1. PICK s \in {"partial", server[g]} : server' = [server EXCEPT ![g] = s]
  BY DEF UploadFails
<1>2. /\ cache' = cache /\ got' = got /\ copied' = copied
      /\ doubled' = doubled
      /\ stage' = [stage EXCEPT ![p] = "failed"]
  BY DEF UploadFails, Fail
<1>3. /\ server'[g] = s
      /\ \A f \in File : f # g => server'[f] = server[f]
  BY <1>0, <1>1 DEF TypeOK
<1>4. \A q \in Pod, f \in File :
        /\ Fetches(q, f)' => Fetches(q, f)
        /\ Uploads(q, f)' => Uploads(q, f)
  BY <1>2 DEF Fetches, Uploads, Current, TypeOK
<1> HIDE DEF g
<1>5. g \in cache \/ (\E q \in Pod : Fetches(q, g)) => g \in doubled
  BY <1>0 DEF Counted
<1>6. Served'
  BY <1>0, <1>1, <1>2, <1>3, <1>4, <1>5 DEF Served, Usable
<1>7. Counted'
  BY <1>0, <1>1, <1>2, <1>3, <1>4 DEF Counted
<1>8. Copied'
  BY <1>2 DEF Copied, Has
<1> QED BY <1>6, <1>7, <1>8

\* wget finds what Served says.
LEMMA FetchKeeps ==
  ASSUME TypeOK, FilesInv, NEW p \in Pod, Fetch(p)
  PROVE  Served' /\ Counted' /\ Copied'
<1> USE DEF FilesInv
<1> DEFINE g == Current(p)
<1>0. copied[p] < Len(Files[p]) /\ stage[p] = "fetch"
  BY DEF Fetch, TypeOK
<1>1. /\ g \in File /\ copied[p] \in Nat /\ Fetches(p, g)
      /\ g = Files[p][copied[p] + 1]
  BY <1>0, CurrentType DEF Fetches, Current
<1>2. /\ cache' = cache /\ server' = server /\ doubled' = doubled
      /\ got' = [got EXCEPT ![p][g] = server[g]]
      /\ copied' = [copied EXCEPT ![p] = @ + 1]
      /\ stage' = [stage EXCEPT ![p] = "copy"]
  BY DEF Fetch
<1>3. \A q \in Pod, f \in File :
        /\ Fetches(q, f)' => Fetches(q, f)
        /\ Uploads(q, f)' => Uploads(q, f)
  BY <1>2 DEF Fetches, Uploads, Current, TypeOK
<1>4. Usable(g)
  BY <1>1 DEF Served
<1> HIDE DEF g
<1>5. Served'
  BY <1>2, <1>3 DEF Served, Usable
<1>6. Counted'
  BY <1>2, <1>3 DEF Counted
<1>7. Copied'
  <2> SUFFICES ASSUME NEW q \in Pod, NEW i \in 1..(copied'[q])
               PROVE  Has(q, Files[q][i])'
    BY DEF Copied
  <2>1. CASE q # p
    BY <2>1, <1>2 DEF Copied, Has, TypeOK
  <2>2. CASE q = p /\ Files[q][i] = g
    BY <2>2, <1>1, <1>2, <1>4 DEF Has, Usable, TypeOK
  <2>3. CASE q = p /\ Files[q][i] # g
    <3>1. i \in 1..copied[p]
      BY <2>3, <1>1, <1>2 DEF TypeOK
    <3>2. got'[p][Files[p][i]] = got[p][Files[p][i]]
      BY <2>3, <1>2 DEF TypeOK
    <3> QED BY <3>1, <3>2, <2>3, <1>2 DEF Copied, Has
  <2> QED BY <2>1, <2>2, <2>3
<1> QED BY <1>5, <1>6, <1>7

\* A step after which the files are copied or missing as before.
LEMMA MagicKept ==
  ASSUME TypeOK, MagicLast, UNCHANGED <<magic, pod, copied>>,
         \A q \in Pod : stage'[q] = "magic" => stage'[q] = stage[q]
  PROVE  MagicLast'
BY DEF MagicLast

(***************************************************************************)
(* A node starts with all its files, whole unless one was uploaded twice.  *)
(***************************************************************************)
THEOREM FilesArrive == Spec => []StartsWithItsFiles
<1>1. Init => FilesInv
  BY DEF Init, FilesInv, Served, Counted, Copied, MagicLast, Fetches, Uploads
<1>2. TypeOK /\ FilesInv /\ [Next]_vars => FilesInv'
  <2> SUFFICES ASSUME TypeOK, FilesInv, [Next]_vars PROVE FilesInv'
    OBVIOUS
  <2> USE DEF kubeVars
  <2>0. MagicLast
    BY DEF FilesInv
  <2>1. ASSUME NEW p \in Pod, Begin(p) PROVE FilesInv'
    <3>1. /\ \A q \in Pod : stage'[q] \in {"upload", "fetch", "magic"} => stage'[q] = stage[q]
          /\ UNCHANGED fileVars /\ UNCHANGED <<magic, pod, copied>>
      BY <2>1 DEF Begin, TypeOK, fileVars
    <3> QED BY <3>1, <2>0, FilesKept, MagicKept DEF FilesInv
  <2>2. ASSUME NEW p \in Pod, Apply(p) PROVE FilesInv'
    <3>1. \A q \in Pod : stage'[q] \in {"upload", "fetch", "magic"} => stage'[q] = stage[q]
      BY <2>2, AdvanceType DEF Apply
    <3>2. MagicLast'
      BY <3>1, <2>0, <2>2 DEF Apply, MagicLast, TypeOK, fileVars
    <3> QED BY <3>1, <3>2, <2>2, FilesKept DEF Apply, FilesInv
  <2>3. ASSUME NEW p \in Pod, Command(p) PROVE FilesInv'
    <3>1. /\ \A q \in Pod : stage'[q] \in {"upload", "fetch", "magic"} => stage'[q] = stage[q]
          /\ UNCHANGED fileVars /\ UNCHANGED <<magic, pod, copied>>
      BY <2>3, AdvanceType DEF Command, fileVars
    <3> QED BY <3>1, <2>0, FilesKept, MagicKept DEF FilesInv
  <2>4. ASSUME NEW p \in Pod, CommandFails(p) PROVE FilesInv'
    <3>1. /\ \A q \in Pod : stage'[q] \in {"upload", "fetch", "magic"} => stage'[q] = stage[q]
          /\ UNCHANGED fileVars /\ UNCHANGED <<magic, pod, copied>>
      BY <2>4 DEF CommandFails, Fail, TypeOK, fileVars
    <3> QED BY <3>1, <2>0, FilesKept, MagicKept DEF FilesInv
  <2>5. ASSUME NEW p \in Pod, Poll(p) PROVE FilesInv'
    <3>1. UNCHANGED fileVars /\ UNCHANGED <<magic, pod, copied>>
      BY <2>5 DEF Poll, fileVars
    <3>2. \A q \in Pod : stage'[q] \in {"upload", "fetch", "magic"} => stage'[q] = stage[q]
      <4>1. CASE Advance(p)
        BY <4>1, <2>5, AdvanceType DEF Poll
      <4>2. CASE Fail(p)
        BY <4>2 DEF Fail, TypeOK
      <4>3. CASE UNCHANGED stage
        BY <4>3
      <4> QED BY <2>5, <4>1, <4>2, <4>3 DEF Poll
    <3> QED BY <3>1, <3>2, <2>0, FilesKept, MagicKept DEF FilesInv
  <2>6. ASSUME NEW p \in Pod, AllCopied(p) PROVE FilesInv'
    <3>1. \A q \in Pod : stage'[q] \in {"upload", "fetch"} => stage'[q] = stage[q]
      BY <2>6 DEF AllCopied, TypeOK
    <3>2. MagicLast'
      BY <2>6, <2>0 DEF AllCopied, MagicLast, TypeOK, fileVars
    <3> QED BY <3>1, <3>2, <2>6, FilesKept DEF AllCopied, FilesInv
  <2>7. ASSUME NEW p \in Pod, UseCache(p) PROVE FilesInv'
    <3>1. MagicLast'
      BY <2>7, <2>0 DEF UseCache, MagicLast, TypeOK, fileVars
    <3> QED BY <3>1, <2>7, UseCacheKeeps DEF FilesInv
  <2>8. ASSUME NEW p \in Pod, Upload(p) PROVE FilesInv'
    <3>1. MagicLast'
      BY <2>8, <2>0 DEF Upload, MagicLast, TypeOK
    <3> QED BY <3>1, <2>8, UploadKeeps DEF FilesInv
  <2>9. ASSUME NEW p \in Pod, UploadEnds(p) PROVE FilesInv'
    <3>1. MagicLast'
      BY <2>9, <2>0 DEF UploadEnds, MagicLast, TypeOK
    <3> QED BY <3>1, <2>9, UploadEndsKeeps DEF FilesInv
  <2>10. ASSUME NEW p \in Pod, UploadFails(p) PROVE FilesInv'
    <3>1. MagicLast'
      BY <2>10, <2>0 DEF UploadFails, Fail, MagicLast, TypeOK
    <3> QED BY <3>1, <2>10, UploadFailsKeeps DEF FilesInv
  <2>11. ASSUME NEW p \in Pod, Fetch(p) PROVE FilesInv'
    <3>1. p \notin magic
      <4>1. copied[p] < Len(Files[p])
        BY <2>11 DEF Fetch, TypeOK
      <4>2. copied[p] # Len(Files[p])
        BY <4>1, CurrentType
      <4> QED BY <4>2, <2>0 DEF MagicLast
    <3>2. MagicLast'
      BY <3>1, <2>11, <2>0 DEF Fetch, MagicLast, TypeOK
    <3> QED BY <3>2, <2>11, FetchKeeps DEF FilesInv
  <2>12. ASSUME NEW p \in Pod, PutMagic(p) PROVE FilesInv'
    <3>1. \A q \in Pod : stage'[q] \in {"upload", "fetch", "magic"} => stage'[q] = stage[q]
      BY <2>12, AdvanceType DEF PutMagic
    <3>2. MagicLast'
      BY <3>1, <2>0, <2>12 DEF PutMagic, MagicLast, TypeOK, fileVars
    <3> QED BY <3>1, <3>2, <2>12, FilesKept DEF PutMagic, FilesInv
  <2>13. ASSUME NEW p \in Pod, TunnelOpens(p) PROVE FilesInv'
    <3>1. /\ \A q \in Pod : stage'[q] \in {"upload", "fetch", "magic"} => stage'[q] = stage[q]
          /\ UNCHANGED fileVars /\ UNCHANGED <<magic, pod, copied>>
      BY <2>13 DEF TunnelOpens, TypeOK, fileVars
    <3> QED BY <3>1, <2>0, FilesKept, MagicKept DEF FilesInv
  <2>14. ASSUME NEW p \in Pod, TunnelExits(p) PROVE FilesInv'
    BY <2>14, <2>0, FilesKept, MagicKept DEF TunnelExits, FilesInv, fileVars
  <2>15. ASSUME NEW p \in Pod, Kubernetes(p) PROVE FilesInv'
    <3>1. UNCHANGED fileVars /\ UNCHANGED <<stage, magic, copied>>
      BY <2>15 DEF Kubernetes, StartTransfer, StartMain, SpecWritten, Break, fileVars
    <3>2. MagicLast'
      BY <3>1, <2>15, <2>0
         DEF Kubernetes, StartTransfer, StartMain, SpecWritten, Break, MagicLast, TypeOK
    <3> QED BY <3>1, <3>2, FilesKept DEF FilesInv
  <2>16. CASE UNCHANGED vars
    BY <2>16, <2>0, FilesKept, MagicKept DEF vars, FilesInv, fileVars
  <2> QED BY <2>1, <2>2, <2>3, <2>4, <2>5, <2>6, <2>7, <2>8, <2>9, <2>10, <2>11,
             <2>12, <2>13, <2>14, <2>15, <2>16 DEF Next, Step
<1>3. TypeOK /\ FilesInv => StartsWithItsFiles
  <2> SUFFICES ASSUME TypeOK, FilesInv,
                      NEW p \in Pod, pod[p] \in {"running", "waiting"},
                      NEW i \in 1..Len(Files[p])
               PROVE  Has(p, Files[p][i])
    BY DEF StartsWithItsFiles, Has
  <2> QED BY DEF FilesInv, MagicLast, Copied
<1> QED BY <1>1, <1>2, <1>3, TypeCorrect, PTL DEF Spec

-----------------------------------------------------------------------------
(* kubeClient.ts: the namespace cleaner                                    *)

Interval == Renewal * Minute
Lead == Ahead * Minute

\* The interval and the lead in ticks; a lead is at least a minute.
LEMMA Ticks ==
  /\ Interval \in Nat \ {0} /\ Lead \in Nat /\ Minute \in Nat \ {0}
  /\ Lead >= Minute
  /\ Slack \in Nat /\ MaxTake \in Nat /\ Day \in Nat /\ Day > Minute
<1>1. /\ Minute \in Nat \ {0} /\ Renewal \in Nat \ {0} /\ Ahead \in Nat \ {0}
      /\ Slack \in Nat /\ MaxTake \in Nat /\ Day \in Nat /\ Day > Minute
  BY KubeCleanerAssumption
<1>2. Renewal * Minute \in Nat \ {0}
  BY <1>1
<1>3. Ahead * Minute \in Nat /\ Ahead * Minute >= Minute
  BY <1>1
<1> QED BY <1>1, <1>2, <1>3 DEF Interval, Lead

\* The end of an upsert leaves fewer in progress.
LEMMA EndsType ==
  ASSUME CleanerTypeOK, NEW u \in InProgress, Ends(u)
  PROVE  /\ cronInterval' \in BOOLEAN /\ cronInterval'
         /\ renewIn' \in 0..Interval
         /\ upsert' \in [Upsert -> [at : {"idle", "ask", "apply"}, age : Nat, due : Nat]]
         /\ InProgress' = InProgress \ {u}
BY Ticks DEF CleanerTypeOK, Ends, Idle, InProgress, Interval

(***************************************************************************)
(* The type invariant: before the interval is set one upsert is in         *)
(* progress, a program that is gone has none.                              *)
(***************************************************************************)
THEOREM CleanerTypeCorrect == CleanerSpec => []CleanerTypeOK
<1>1. CleanerInit => CleanerTypeOK
  <2> SUFFICES ASSUME CleanerInit PROVE CleanerTypeOK
    OBVIOUS
  <2>1. renewIn \in 0..(Renewal * Minute)
    BY Ticks DEF CleanerInit, Interval
  <2>2. PICK u \in Upsert : upsert = [v \in Upsert |-> IF v = u THEN Started ELSE Idle]
    BY DEF CleanerInit
  <2> QED BY <2>1, <2>2 DEF CleanerInit, CleanerTypeOK, Started, Idle, InProgress
<1>2. CleanerTypeOK /\ [CleanerNext]_cleanerVars => CleanerTypeOK'
  <2> SUFFICES ASSUME CleanerTypeOK, [CleanerNext]_cleanerVars PROVE CleanerTypeOK'
    OBVIOUS
  <2> USE Ticks DEF clusterVars, cronVars, Interval, Lead
  <2>1. ASSUME NEW u \in Upsert, Renew(u) PROVE CleanerTypeOK'
    BY <2>1 DEF Renew, CleanerTypeOK, Started, InProgress
  <2>2. ASSUME NEW u \in Upsert, Compute(u) PROVE CleanerTypeOK'
    <3>1. Ahead * Minute - phase \in Nat
      BY DEF CleanerTypeOK
    <3>2. /\ upsert' \in [Upsert -> [at : {"idle", "ask", "apply"}, age : Nat, due : Nat]]
          /\ InProgress' = InProgress
      BY <3>1, <2>2 DEF Compute, CleanerTypeOK, InProgress
    <3> QED BY <3>2, <2>2 DEF Compute, CleanerTypeOK
  <2>3. ASSUME NEW u \in Upsert, NotActive(u) PROVE CleanerTypeOK'
    <3>1. u \in InProgress
      BY <2>3 DEF NotActive, InProgress
    <3> QED BY <3>1, <2>3, EndsType DEF NotActive, CleanerTypeOK
  <2>4. ASSUME NEW u \in Upsert, ApplySchedule(u) PROVE CleanerTypeOK'
    <3>1. u \in InProgress
      BY <2>4 DEF ApplySchedule, InProgress
    <3>2. cronIn' \in Nat
      BY <2>4 DEF ApplySchedule, CleanerTypeOK
    <3> QED BY <3>1, <3>2, <2>4, EndsType DEF ApplySchedule, CleanerTypeOK
  <2>5. ASSUME NEW u \in Upsert, Throws(u) PROVE CleanerTypeOK'
    <3>1. /\ upsert' \in [Upsert -> [at : {"idle", "ask", "apply"}, age : Nat, due : Nat]]
          /\ InProgress' = InProgress \ {u}
      BY <2>5 DEF Throws, CleanerTypeOK, InProgress, Idle
    <3> QED BY <3>1, <2>5 DEF Throws, CleanerTypeOK
  <2>6. CASE Interrupt
    BY <2>6 DEF Interrupt, CleanerTypeOK, InProgress
  <2>7. CASE Destroy
    BY <2>7 DEF Destroy, Delete, CleanerTypeOK, InProgress
  <2>8. CASE Exit
    BY <2>8 DEF Exit, CleanerTypeOK, InProgress, Idle
  <2>9. CASE Tick
    <3>1. /\ upsert' \in [Upsert -> [at : {"idle", "ask", "apply"}, age : Nat, due : Nat]]
          /\ InProgress' = InProgress
      BY <2>9 DEF Tick, CleanerTypeOK, InProgress, Older
    <3>2. phase' \in 0..(Minute - 1) /\ renewIn' \in 0..(Renewal * Minute) /\ cronIn' \in Nat
      BY <2>9 DEF Tick, CleanerTypeOK
    <3> QED BY <3>1, <3>2, <2>9 DEF Tick, CleanerTypeOK
  <2>10. CASE Fire
    BY <2>10 DEF Fire, CleanerTypeOK, InProgress
  <2>11. CASE Clean
    BY <2>11 DEF Clean, Delete, CleanerTypeOK, InProgress
  <2>12. CASE Terminated
    BY <2>12 DEF Terminated, CleanerTypeOK, InProgress
  <2>13. CASE JobEnds
    BY <2>13 DEF JobEnds, CleanerTypeOK, InProgress
  <2>14. CASE Sweep
    BY <2>14 DEF Sweep, Delete, CleanerTypeOK, InProgress
  <2>15. CASE UNCHANGED cleanerVars
    BY <2>15 DEF cleanerVars, CleanerTypeOK, InProgress
  <2> QED BY <2>1, <2>2, <2>3, <2>4, <2>5, <2>6, <2>7, <2>8, <2>9, <2>10, <2>11,
             <2>12, <2>13, <2>14, <2>15 DEF CleanerNext, UpsertStep
<1> QED BY <1>1, <1>2, PTL DEF CleanerSpec

-----------------------------------------------------------------------------
\* An upsert in progress is young, will schedule the deletion late enough, and
\* the standing schedule outlasts it.
Young(u) ==
    /\ upsert[u].age <= Slack
    /\ upsert[u].at = "apply" => upsert[u].due + upsert[u].age + Minute > Lead
    /\ cronInterval =>
         /\ renewIn + upsert[u].age = Interval
         /\ cronIn + upsert[u].age > Slack

\* Between two upserts the standing schedule outlasts the next one.
Renewed ==
    /\ namespace = "active" /\ ~cleaning
    /\ \A u, v \in InProgress : u = v
    /\ \A u \in InProgress : Young(u)
    /\ armed = cronInterval
    /\ cronInterval /\ InProgress = {} => cronIn > renewIn + Slack

CronInv == program = "up" => late \/ ci = "failed" \/ Renewed

(***************************************************************************)
(* The namespace outlives the program, if an upsert within Slack is in     *)
(* time: twice Slack is no more than the margin.                           *)
(***************************************************************************)
THEOREM NamespaceKept == ASSUME InTime PROVE CleanerSpec => []NamespaceOutlivesProgram
<1> USE Ticks
<1>0. /\ Slack < Interval
      /\ Interval + Minute + 2 * Slack <= Lead
  BY DEF InTime, Interval, Lead
<1>1. CleanerInit => CronInv
  <2> SUFFICES ASSUME CleanerInit PROVE Renewed
    BY DEF CronInv
  <2>1. PICK u \in Upsert : upsert = [v \in Upsert |-> IF v = u THEN Started ELSE Idle]
    BY DEF CleanerInit
  <2>2. InProgress = {u} /\ upsert[u] = Started
    BY <2>1 DEF InProgress, Started, Idle
  <2>3. Young(u)
    BY <2>2 DEF CleanerInit, Young, Started
  <2> QED BY <2>2, <2>3 DEF CleanerInit, Renewed
<1>2. CleanerTypeOK /\ CronInv /\ [CleanerNext]_cleanerVars => CronInv'
  <2> SUFFICES ASSUME CleanerTypeOK, CronInv, [CleanerNext]_cleanerVars,
                      program' = "up", ~late', ci' # "failed"
               PROVE  Renewed'
    BY DEF CronInv
  <2> USE DEF clusterVars, cronVars
  <2>1. ASSUME program = "up", ~late, ci # "failed" PROVE Renewed
    BY <2>1 DEF CronInv
  <2>2. ASSUME NEW u \in Upsert, Renew(u) PROVE Renewed'
    <3>1. Renewed
      BY <2>1, <2>2 DEF Renew
    <3>2. InProgress = {}
      BY <3>1, <2>2, <1>0 DEF Renewed, Young, Renew, InProgress, CleanerTypeOK
    <3>3. InProgress' = {u} /\ upsert'[u] = Started /\ renewIn' = Interval
      BY <3>2, <2>2 DEF Renew, InProgress, CleanerTypeOK, Interval, Started
    <3>4. cronIn > Slack
      BY <3>1, <3>2, <2>2 DEF Renewed, Renew, CleanerTypeOK
    <3> QED BY <3>1, <3>2, <3>3, <3>4, <2>2 DEF Renewed, Young, Renew, Started, CleanerTypeOK
  <2>3. ASSUME NEW u \in Upsert, Compute(u) PROVE Renewed'
    <3>1. Renewed
      BY <2>1, <2>3 DEF Compute
    <3>2. /\ InProgress' = InProgress
          /\ upsert'[u].at = "apply" /\ upsert'[u].age = upsert[u].age
          /\ upsert'[u].due = Lead - phase
          /\ \A v \in Upsert \ {u} : upsert'[v] = upsert[v]
      BY <2>3 DEF Compute, InProgress, CleanerTypeOK, Lead
    <3>3. upsert'[u].due + upsert'[u].age + Minute > Lead
      BY <3>2 DEF CleanerTypeOK
    <3> QED BY <3>1, <3>2, <3>3, <2>3 DEF Renewed, Young, Compute, CleanerTypeOK, InProgress
  <2>4. ASSUME NEW u \in Upsert, NotActive(u) PROVE Renewed'
    BY <2>1, <2>4 DEF NotActive, Renewed
  <2>5. ASSUME NEW u \in Upsert, ApplySchedule(u) PROVE Renewed'
    <3>1. Renewed /\ u \in InProgress
      BY <2>1, <2>5 DEF ApplySchedule, InProgress
    <3>2. InProgress' = {} /\ cronInterval' /\ armed'
      BY <3>1, <2>5, EndsType DEF Renewed, ApplySchedule
    <3>3. /\ upsert[u].age \in Nat /\ upsert[u].due \in Nat /\ upsert[u].age <= Slack
          /\ upsert[u].due + upsert[u].age + Minute > Lead
      BY <3>1, <2>5 DEF Renewed, Young, ApplySchedule, CleanerTypeOK
    <3>4. cronIn' = upsert[u].due
      BY <3>3, <1>0, <2>5 DEF ApplySchedule
    <3>5. renewIn' = IF cronInterval THEN renewIn ELSE Interval
      BY <2>5 DEF ApplySchedule, Ends, Interval
    <3>6. cronInterval => renewIn + upsert[u].age = Interval
      BY <3>1 DEF Renewed, Young
    <3>7. cronIn' > renewIn' + Slack
      <4>1. renewIn \in Nat
        BY DEF CleanerTypeOK
      <4> QED BY <4>1, <3>3, <3>4, <3>5, <3>6, <1>0
    <3> QED BY <3>1, <3>2, <3>7, <2>5 DEF Renewed, ApplySchedule
  <2>6. ASSUME NEW u \in Upsert, Throws(u) PROVE Renewed'
    BY <2>6 DEF Throws
  <2>7. CASE Interrupt \/ Destroy \/ Exit
    BY <2>7 DEF Interrupt, Destroy, Exit
  <2>8. CASE Tick
    <3>1. Renewed
      BY <2>1, <2>8 DEF Tick
    <3>2. InProgress' = InProgress
      BY <2>8 DEF Tick, InProgress, Older, CleanerTypeOK
    <3>3. ASSUME NEW u \in InProgress
          PROVE  /\ upsert[u].age < Slack
                 /\ upsert'[u].at = upsert[u].at
                 /\ upsert'[u].age = upsert[u].age + 1
                 /\ upsert'[u].due = IF upsert[u].due = 0 THEN 0 ELSE upsert[u].due - 1
      <4>1. u \in Upsert /\ upsert[u].at # "idle" /\ upsert[u].age \in Nat
        BY DEF InProgress, CleanerTypeOK
      <4>2. ~(upsert[u].age >= Slack)
        BY <2>8 DEF Tick
      <4>3. upsert'[u] = Older(upsert[u])
        BY <4>1, <2>8 DEF Tick
      <4> QED BY <4>1, <4>2, <4>3 DEF Older
    <3>4. cronInterval => /\ renewIn > 0 /\ renewIn' = renewIn - 1
                          /\ cronIn > 0 /\ cronIn' = cronIn - 1
      BY <3>1, <2>8 DEF Tick, Due, Renewed, CleanerTypeOK
    <3>5. ASSUME NEW u \in InProgress PROVE Young(u)'
      <4>1. upsert[u].age \in Nat /\ upsert[u].due \in Nat /\ renewIn \in Nat /\ cronIn \in Nat
        BY DEF InProgress, CleanerTypeOK
      <4>2. Young(u)
        BY <3>1 DEF Renewed
      <4>3. cronInterval' = cronInterval
        BY <2>8 DEF Tick
      <4>4. upsert'[u].age <= Slack
        BY <4>1, <3>3
      <4>5. ASSUME upsert'[u].at = "apply"
            PROVE  upsert'[u].due + upsert'[u].age + Minute > Lead
        <5>1. upsert[u].due + upsert[u].age + Minute > Lead
          BY <4>2, <4>5, <3>3 DEF Young
        <5>2. upsert[u].due # 0
          BY <5>1, <4>1, <3>3, <1>0
        <5> QED BY <5>1, <5>2, <4>1, <3>3
      <4>6. ASSUME cronInterval
            PROVE  renewIn' + upsert'[u].age = Interval /\ cronIn' + upsert'[u].age > Slack
        BY <4>1, <4>2, <4>6, <3>3, <3>4 DEF Young
      <4> QED BY <4>3, <4>4, <4>5, <4>6 DEF Young, Lead, Interval
    <3>6. cronInterval /\ InProgress = {} => cronIn' > renewIn' + Slack
      BY <3>1, <3>4 DEF Renewed, CleanerTypeOK
    <3> QED BY <3>1, <3>2, <3>5, <3>6, <2>8 DEF Renewed, Tick
  <2>9. CASE Fire
    <3>1. Renewed
      BY <2>1, <2>9 DEF Fire
    <3>2. cronIn > 0
      <4>1. cronInterval /\ cronIn \in Nat /\ renewIn \in Nat
        BY <3>1, <2>9 DEF Renewed, Fire, CleanerTypeOK
      <4>2. CASE InProgress = {}
        BY <4>1, <4>2, <3>1 DEF Renewed
      <4>3. ASSUME NEW u \in InProgress PROVE cronIn > 0
        BY <4>1, <4>3, <3>1 DEF Renewed, Young, CleanerTypeOK, InProgress
      <4> QED BY <4>2, <4>3
    <3> QED BY <3>2, <2>9 DEF Fire
  <2>10. CASE Clean
    BY <2>1, <2>10 DEF Clean, Renewed
  <2>11. CASE Terminated
    BY <2>1, <2>11 DEF Terminated, Renewed
  <2>12. CASE JobEnds
    BY <2>1, <2>12 DEF JobEnds, Renewed, Young, InProgress
  <2>13. CASE Sweep
    BY <2>13 DEF Sweep
  <2>14. CASE UNCHANGED cleanerVars
    BY <2>1, <2>14 DEF cleanerVars, Renewed, Young, InProgress
  <2> QED BY <2>2, <2>3, <2>4, <2>5, <2>6, <2>7, <2>8, <2>9, <2>10, <2>11, <2>12,
             <2>13, <2>14 DEF CleanerNext, UpsertStep
<1>3. CronInv => NamespaceOutlivesProgram
  BY DEF CronInv, Renewed, NamespaceOutlivesProgram
<1> QED BY <1>1, <1>2, <1>3, CleanerTypeCorrect, PTL DEF CleanerSpec
=============================================================================
