----------------------- MODULE InputDownloaderProofs -----------------------
(***************************************************************************)
(* Proofs about InputDownloader, for any images and any number of          *)
(* invocations in one directory.                                           *)
(*                                                                         *)
(* The safety of the scene rests on the tarball: between the download and  *)
(* tar it is this run's own, whatever is left of earlier ones.  The        *)
(* station file rests on the name that getCollectionTierName has given to  *)
(* get-station-data.sh (TierIsUnpacked).                                   *)
(***************************************************************************)
EXTENDS InputDownloader, TLAPS

\* The name handed to the script is that of an image in the directory.
TierIsUnpacked ==
    pc \in {"preprocess", "mv", "echo", "describe"} =>
        tier \in IF mtl = {} THEN {NoTier} ELSE mtl

\* After the script there is a station file of that name, and an exit
\* status is there only when the invocation has ended.
ScriptIsDone ==
    /\ pc = "describe" => station[tier] # "none"
    /\ Active => status = Running

DownloaderInvariant == /\ TypeOK
                       /\ UnpacksOnlyItsOwnDownload
                       /\ TierIsUnpacked
                       /\ ScriptIsDone
                       /\ SoleSceneHasAStationFile

LEMMA InitDownloader == Init => DownloaderInvariant
<1> SUFFICES ASSUME Init PROVE DownloaderInvariant
  OBVIOUS
<1>1. 0 \in 0..MaxRuns
  BY DownloaderAssumption
<1>2. tarball \in [Images -> [content : {"absent", "partial"} \cup Documents, by : 0..MaxRuns]]
  BY <1>1 DEF Init, NoTarball
<1>3. scene \in [Images -> [state : {"none", "partial", "whole"}, by : 0..MaxRuns]]
  BY <1>1 DEF Init
<1>4. /\ found \in [Images -> {"none", "partial", "data"}]
      /\ station \in [Images \cup {NoTier} -> {"none", "blank", "partial", "data"}]
  BY DEF Init
<1>5. TypeOK
  BY <1>1, <1>2, <1>3, <1>4 DEF Init, TypeOK
<1> QED BY <1>5 DEF Init, DownloaderInvariant, UnpacksOnlyItsOwnDownload,
     TierIsUnpacked, ScriptIsDone, SoleSceneHasAStationFile, Active, Running

-----------------------------------------------------------------------------
\* The steps that leave the storage directory alone.
LEMMA QuietSteps ==
    ASSUME DownloaderInvariant,
           \/ WrongNumberOfArgs \/ Configure \/ ConfigureFails \/ Login
           \/ GetImageName \/ ImageNotFound \/ GetDownloadLink \/ GetDownloadLinkFails
           \/ NoStorageDirectory \/ Reachable \/ (\E code \in {3, 4, 5} : NotReachable(code))
           \/ CopyFails \/ StartFails \/ Kill
    PROVE  DownloaderInvariant'
<1>1. CASE WrongNumberOfArgs \/ Configure \/ ConfigureFails \/ Login \/ GetImageName
  BY <1>1 DEF WrongNumberOfArgs, Configure, ConfigureFails, Login, GetImageName, Goto, Exit,
     storage, answers, DownloaderInvariant, TypeOK, UnpacksOnlyItsOwnDownload,
     TierIsUnpacked, ScriptIsDone, SoleSceneHasAStationFile, Active, Running, Killed
<1>2. CASE ImageNotFound \/ GetDownloadLink \/ GetDownloadLinkFails
  BY <1>2 DEF ImageNotFound, GetDownloadLink, GetDownloadLinkFails, Goto, Exit,
     storage, answers, DownloaderInvariant, TypeOK, UnpacksOnlyItsOwnDownload,
     TierIsUnpacked, ScriptIsDone, SoleSceneHasAStationFile, Active, Running, Killed
<1>3. CASE NoStorageDirectory \/ Reachable \/ (\E code \in {3, 4, 5} : NotReachable(code))
  BY <1>3 DEF NoStorageDirectory, Reachable, NotReachable, Goto, Exit,
     storage, answers, DownloaderInvariant, TypeOK, UnpacksOnlyItsOwnDownload,
     TierIsUnpacked, ScriptIsDone, SoleSceneHasAStationFile, Active, Running, Killed
<1>4. CASE CopyFails \/ StartFails \/ Kill
  BY <1>4 DEF CopyFails, StartFails, Kill, Goto, Exit,
     storage, answers, DownloaderInvariant, TypeOK, UnpacksOnlyItsOwnDownload,
     TierIsUnpacked, ScriptIsDone, SoleSceneHasAStationFile, Active, Running, Killed
<1> QED BY <1>1, <1>2, <1>3, <1>4

LEMMA BeginStep ==
    ASSUME DownloaderInvariant, NEW i \in Images, Begin(i)
    PROVE  DownloaderInvariant'
<1>1. run' \in 0..MaxRuns
  BY DownloaderAssumption DEF Begin, DownloaderInvariant, TypeOK
<1>2. pc' = "configure" /\ status' = Running /\ image' \in Images
  BY DEF Begin
<1>3. TypeOK'
  BY <1>1, <1>2 DEF Begin, storage, DownloaderInvariant, TypeOK
<1> QED BY <1>2, <1>3 DEF DownloaderInvariant, UnpacksOnlyItsOwnDownload,
     TierIsUnpacked, ScriptIsDone, SoleSceneHasAStationFile, Active, Running

LEMMA TarballSteps ==
    ASSUME DownloaderInvariant,
           \/ DeleteOldTarball \/ CopyStarts \/ DeleteTarball
           \/ (\E content \in Documents : CopyEnds(content))
    PROVE  DownloaderInvariant'
<1> DEFINE Tarballs == [content : {"absent", "partial"} \cup Documents, by : 0..MaxRuns]
<1>1. /\ tarball \in [Images -> Tarballs] /\ image \in Images /\ run \in 0..MaxRuns
      /\ NoTarball \in Tarballs
      /\ \A c \in {"partial"} \cup Documents : [content |-> c, by |-> run] \in Tarballs
  BY DownloaderAssumption DEF DownloaderInvariant, TypeOK, NoTarball, Documents
<1> HIDE DEF Tarballs
<1>2. CASE DeleteOldTarball \/ DeleteTarball
  <2>1. tarball' = [tarball EXCEPT ![image] = NoTarball]
    BY <1>2 DEF DeleteOldTarball, DeleteTarball
  <2>2. tarball' \in [Images -> Tarballs]
    BY <1>1, <2>1
  <2> QED BY <1>2, <2>2 DEF DeleteOldTarball, DeleteTarball, Goto, answers, DownloaderInvariant, TypeOK,
       UnpacksOnlyItsOwnDownload, TierIsUnpacked, ScriptIsDone, SoleSceneHasAStationFile, Active, Running, Tarballs
<1>3. CASE CopyStarts
  <2>1. tarball' \in [Images -> Tarballs]
    BY <1>1, <1>3 DEF CopyStarts
  <2> QED BY <1>3, <2>1 DEF CopyStarts, Goto, answers, DownloaderInvariant, TypeOK,
       UnpacksOnlyItsOwnDownload, TierIsUnpacked, ScriptIsDone, SoleSceneHasAStationFile, Active, Running, Tarballs
<1>4. ASSUME NEW content \in Documents, CopyEnds(content) PROVE DownloaderInvariant'
  <2>1. tarball' \in [Images -> Tarballs]
    BY <1>1, <1>4 DEF CopyEnds
  <2>2. tarball'[image].by = run /\ tarball'[image].content \in Documents
    BY <1>1, <1>4 DEF CopyEnds
  <2> QED BY <1>4, <2>1, <2>2 DEF CopyEnds, Goto, answers, DownloaderInvariant, TypeOK,
       UnpacksOnlyItsOwnDownload, TierIsUnpacked, ScriptIsDone, SoleSceneHasAStationFile, Active, Running, Tarballs
<1> QED BY <1>2, <1>3, <1>4

LEMMA SceneSteps ==
    ASSUME DownloaderInvariant, UnpackStarts \/ UnpackEnds \/ UnpackFails \/ GetCollectionTierName
    PROVE  DownloaderInvariant'
<1> DEFINE Scenes == [state : {"none", "partial", "whole"}, by : 0..MaxRuns]
<1>1. /\ scene \in [Images -> Scenes] /\ image \in Images /\ run \in 0..MaxRuns
      /\ \A c \in {"partial", "whole"} : [state |-> c, by |-> run] \in Scenes
      /\ mtl \subseteq Images
  BY DEF DownloaderInvariant, TypeOK
<1> HIDE DEF Scenes
<1>2. CASE UnpackStarts
  <2>1. scene' \in [Images -> Scenes] /\ mtl' \subseteq Images
    BY <1>1, <1>2 DEF UnpackStarts
  <2> QED BY <1>2, <2>1 DEF UnpackStarts, Goto, answers, DownloaderInvariant, TypeOK,
       UnpacksOnlyItsOwnDownload, TierIsUnpacked, ScriptIsDone, SoleSceneHasAStationFile, Active, Running, Scenes
<1>3. CASE UnpackEnds
  <2>1. scene' \in [Images -> Scenes] /\ mtl' \subseteq Images
    BY <1>1, <1>3 DEF UnpackEnds
  <2> QED BY <1>3, <2>1 DEF UnpackEnds, Goto, answers, DownloaderInvariant, TypeOK,
       UnpacksOnlyItsOwnDownload, TierIsUnpacked, ScriptIsDone, SoleSceneHasAStationFile, Active, Running, Scenes
<1>4. CASE UnpackFails
  BY <1>4 DEF UnpackFails, Goto, storage, answers, DownloaderInvariant, TypeOK,
       UnpacksOnlyItsOwnDownload, TierIsUnpacked, ScriptIsDone, SoleSceneHasAStationFile, Active, Running
<1>5. CASE GetCollectionTierName
  BY <1>1, <1>5 DEF GetCollectionTierName, Goto, storage, DownloaderInvariant, TypeOK,
       UnpacksOnlyItsOwnDownload, TierIsUnpacked, ScriptIsDone, SoleSceneHasAStationFile, Active, Running
<1> QED BY <1>2, <1>3, <1>4, <1>5

\* get-station-data.sh.
LEMMA ScriptSteps ==
    ASSUME DownloaderInvariant, GetStationData
    PROVE  DownloaderInvariant'
<1>1. /\ TypeOK /\ tier \in Images \cup {NoTier}
      /\ station \in [Images \cup {NoTier} -> {"none", "blank", "partial", "data"}]
      /\ found \in [Images -> {"none", "partial", "data"}]
  BY DEF DownloaderInvariant, TypeOK
<1>2. CASE PreProcess
  <2>1. found' \in [Images -> {"none", "partial", "data"}]
    BY <1>1, <1>2 DEF PreProcess
  <2> QED BY <1>2, <2>1 DEF PreProcess, Goto, answers, DownloaderInvariant, TypeOK,
       UnpacksOnlyItsOwnDownload, TierIsUnpacked, ScriptIsDone, SoleSceneHasAStationFile, Active, Running
<1>3. CASE MvStation
  <2>1. /\ found' \in [Images -> {"none", "partial", "data"}]
        /\ station' \in [Images \cup {NoTier} -> {"none", "blank", "partial", "data"}]
    BY <1>1, <1>3 DEF MvStation
  <2> QED BY <1>3, <2>1 DEF MvStation, Goto, answers, DownloaderInvariant, TypeOK,
       UnpacksOnlyItsOwnDownload, TierIsUnpacked, ScriptIsDone, SoleSceneHasAStationFile, Active, Running
<1>4. CASE EchoBlankLine
  <2>1. /\ station' \in [Images \cup {NoTier} -> {"none", "blank", "partial", "data"}]
        /\ station'[tier] # "none"
    BY <1>1, <1>4 DEF EchoBlankLine
  <2> QED BY <1>4, <2>1 DEF EchoBlankLine, Goto, answers, DownloaderInvariant, TypeOK,
       UnpacksOnlyItsOwnDownload, TierIsUnpacked, ScriptIsDone, SoleSceneHasAStationFile, Active, Running
<1> QED BY <1>2, <1>3, <1>4 DEF GetStationData

LEMMA MetadataSteps ==
    ASSUME DownloaderInvariant, SaveMetadata \/ SaveMetadataFails
    PROVE  DownloaderInvariant'
<1>1. pc = "describe" /\ pc' = "ended" /\ listing' \in 0..MaxRuns /\ status' \in {0, 7}
      /\ UNCHANGED <<storage, answers, run, image>>
  BY DownloaderAssumption DEF SaveMetadata, SaveMetadataFails, Exit, DownloaderInvariant, TypeOK
<1>2. mtl = {image} => station[image] # "none"
  BY <1>1 DEF DownloaderInvariant, TierIsUnpacked, ScriptIsDone
<1> QED BY <1>1, <1>2 DEF storage, answers, DownloaderInvariant, TypeOK, UnpacksOnlyItsOwnDownload,
       TierIsUnpacked, ScriptIsDone, SoleSceneHasAStationFile, Active, Running

-----------------------------------------------------------------------------
\* The inductive invariant of a directory and the invocations in it.
THEOREM DownloaderInvariantHolds == Spec => []DownloaderInvariant
<1>1. DownloaderInvariant /\ [Next]_vars => DownloaderInvariant'
  <2> SUFFICES ASSUME DownloaderInvariant, [Next]_vars PROVE DownloaderInvariant'
    OBVIOUS
  <2>1. CASE UNCHANGED vars
    BY <2>1 DEF vars, storage, answers, DownloaderInvariant, TypeOK, UnpacksOnlyItsOwnDownload,
       TierIsUnpacked, ScriptIsDone, SoleSceneHasAStationFile, Active
  <2>2. CASE Next
    BY <2>2, QuietSteps, BeginStep, TarballSteps, SceneSteps, ScriptSteps, MetadataSteps
       DEF Next, Invocation, Constructor, DownloadImage
  <2> QED BY <2>1, <2>2
<1> QED BY InitDownloader, <1>1, PTL DEF Spec

\* Every variable has a value of its kind: no other exit status, for example.
THEOREM DownloaderTypes == Spec => []TypeOK
<1>1. DownloaderInvariant => TypeOK
  BY DEF DownloaderInvariant
<1> QED BY <1>1, DownloaderInvariantHolds, PTL

\* tar never gets what an earlier or a broken download has left
\* (USGSNasaRepository.downloadImage).
THEOREM OnlyOwnDownloadsAreUnpacked == Spec => []UnpacksOnlyItsOwnDownload
<1>1. DownloaderInvariant => UnpacksOnlyItsOwnDownload
  BY DEF DownloaderInvariant
<1> QED BY <1>1, DownloaderInvariantHolds, PTL

\* With exit status 0 the only scene of a directory has a station file
\* (get-station-data.sh).
THEOREM SoleScenesHaveStationFiles == Spec => []SoleSceneHasAStationFile
<1>1. DownloaderInvariant => SoleSceneHasAStationFile
  BY DEF DownloaderInvariant
<1> QED BY <1>1, DownloaderInvariantHolds, PTL

\* A whole scene is only damaged by tar, over an archive of the same image and run
\* that was downloaded to its end (USGSNasaRepository.downloadImage).
THEOREM ScenesAreSafe == Spec => SceneIsDamagedOnlyByUnpacking
<1> DEFINE Safe == \A i \in Images : scene[i].state = "whole" /\ scene'[i].state # "whole"
                      => /\ i = image
                         /\ pc = "unpack" /\ tarball[i].by = run
                         /\ tarball[i].content \in {"whole", "damaged"}
<1>1. DownloaderInvariant /\ [Next]_vars => [Safe]_vars
  <2> SUFFICES ASSUME DownloaderInvariant, Next,
                      NEW i \in Images, scene[i].state = "whole", scene'[i].state # "whole"
               PROVE  /\ i = image /\ pc = "unpack" /\ tarball[i].by = run
                      /\ tarball[i].content \in {"whole", "damaged"}
    BY DEF vars
  <2>1. scene \in [Images -> [state : {"none", "partial", "whole"}, by : 0..MaxRuns]] /\ image \in Images
    BY DEF DownloaderInvariant, TypeOK
  <2>2. UnpackStarts \/ UnpackEnds
    BY DEF Next, Invocation, Constructor, DownloadImage, GetStationData, storage,
       WrongNumberOfArgs, Configure, ConfigureFails, Login, GetImageName, ImageNotFound, GetDownloadLink,
       GetDownloadLinkFails, DeleteOldTarball, NoStorageDirectory, Reachable, NotReachable, CopyStarts,
       CopyEnds, CopyFails, UnpackFails, StartFails, DeleteTarball, GetCollectionTierName, PreProcess,
       MvStation, EchoBlankLine, SaveMetadata, SaveMetadataFails, Kill, Begin
  <2>3. UnpackStarts /\ i = image
    BY <2>1, <2>2 DEF UnpackStarts, UnpackEnds
  <2>4. pc = "unpack" /\ tarball[image].content # "garbage"
    BY <2>1, <2>3 DEF UnpackStarts, Goto
  <2>5. tarball[image].by = run /\ tarball[image].content \in Documents
    BY <2>4 DEF DownloaderInvariant, UnpacksOnlyItsOwnDownload
  <2> QED BY <2>3, <2>4, <2>5 DEF Documents
<1> QED BY <1>1, DownloaderInvariantHolds, PTL DEF Spec, SceneIsDamagedOnlyByUnpacking

\* echo >> and mv never make a blank file of one with data
\* (get-station-data.sh:22-28).
THEOREM StationDataStays == Spec => StationDataIsNotBlanked
<1> DEFINE Stays == \A i \in Images : station[i] \in {"partial", "data"}
                                         => station'[i] \in {"partial", "data"}
<1>1. DownloaderInvariant /\ [Next]_vars => [Stays]_vars
  <2> SUFFICES ASSUME DownloaderInvariant, Next, station' # station,
                      NEW i \in Images, station[i] \in {"partial", "data"}
               PROVE  station'[i] \in {"partial", "data"}
    BY DEF vars, storage
  <2>1. /\ station \in [Images \cup {NoTier} -> {"none", "blank", "partial", "data"}]
        /\ found \in [Images -> {"none", "partial", "data"}] /\ tier \in Images \cup {NoTier}
    BY DEF DownloaderInvariant, TypeOK
  <2>2. MvStation \/ EchoBlankLine
    BY DEF Next, Invocation, Constructor, DownloadImage, GetStationData, storage,
       WrongNumberOfArgs, Configure, ConfigureFails, Login, GetImageName, ImageNotFound, GetDownloadLink,
       GetDownloadLinkFails, DeleteOldTarball, NoStorageDirectory, Reachable, NotReachable, CopyStarts,
       CopyEnds, CopyFails, UnpackStarts, UnpackEnds, UnpackFails, StartFails, DeleteTarball,
       GetCollectionTierName, PreProcess, SaveMetadata, SaveMetadataFails, Kill, Begin
  <2> QED BY <2>1, <2>2 DEF MvStation, EchoBlankLine
<1> QED BY <1>1, DownloaderInvariantHolds, PTL DEF Spec, StationDataIsNotBlanked

=============================================================================
