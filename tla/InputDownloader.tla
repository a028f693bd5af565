-------------------------- MODULE InputDownloader --------------------------
(***************************************************************************)
(* The input downloader: USGS.jar fetches one image into a storage         *)
(* directory, unpacks it and lets get-station-data.sh add the weather      *)
(* stations, and tells its caller by an exit status how far it came.       *)
(*                                                                         *)
(* Invocations follow one another in the same directory (a retry, or the   *)
(* next image), each starting from what the one before has left: a part of *)
(* a tarball, half of a scene, an old station file.  An invocation may be  *)
(* killed between any two steps.                                           *)
(*                                                                         *)
(* The USGS server, tar and PreProcessMain are nondeterministic.  A call   *)
(* of an external program may take for ever here; ProcessPipe says when it *)
(* does return.                                                            *)
(***************************************************************************)
EXTENDS Naturals

CONSTANTS Images,
          NoTier,    \* the empty answer of getCollectionTierName
          MaxRuns    \* bound: how often the downloader is started

ASSUME DownloaderAssumption == NoTier \notin Images /\ MaxRuns \in Nat \ {0}

Running == 255       \* no exit status yet
Killed  == 137

VARIABLES
    \* the storage directory
    tarball,     \* the .tar.gz of each image, and the run that wrote it
    scene,       \* the unpacked files of each image, and the run that unpacked them
    mtl,         \* the images whose _MTL.txt is there
    found,       \* <image>/<image>_station.csv, where PreProcessMain writes
    station,     \* <image>_station.csv
    \* the directory named by sebal.conf
    listing,     \* the run that inputDescription.txt describes; 0 if none
    \* the current or last invocation
    run, pc, status, image,
    apiKey, link,   \* what the login and the download request have answered
    tier            \* the answer of getCollectionTierName

storage == <<tarball, scene, mtl, found, station>>
answers == <<apiKey, link, tier>>
vars    == <<storage, listing, run, pc, status, image, answers>>

\* What a download that has come to its end may be.
Documents == {"whole", "damaged", "garbage"}
NoTarball == [content |-> "absent", by |-> 0]

Init == /\ tarball = [i \in Images |-> NoTarball]
        /\ scene = [i \in Images |-> [state |-> "none", by |-> 0]]
        /\ mtl = {}
        /\ found = [i \in Images |-> "none"]
        /\ station = [i \in Images \cup {NoTier} |-> "none"]
        /\ listing = 0
        /\ run = 0 /\ pc = "ended" /\ status = Running
        /\ image \in Images
        /\ apiKey = FALSE /\ link = "none" /\ tier = NoTier

Active == pc # "ended"

Goto(here, there) == pc = here /\ pc' = there /\ UNCHANGED <<run, status, image>>

\* System.exit, or an exception that leaves main (status 1).
Exit(code) == pc' = "ended" /\ status' = code /\ UNCHANGED <<run, image>>

-----------------------------------------------------------------------------
(***************************************************************************)
(* main and the constructor of USGSController                              *)
(***************************************************************************)

Begin(i) ==
    /\ ~Active /\ run < MaxRuns
    /\ run' = run + 1 /\ image' = i
    /\ pc' = "configure" /\ status' = Running
    /\ apiKey' = FALSE /\ link' = "none" /\ tier' = NoTier
    /\ UNCHANGED <<storage, listing>>

\* checkNumberOfArgs comes before everything else.
WrongNumberOfArgs ==
    /\ pc = "configure"
    /\ Exit(6)
    /\ UNCHANGED <<storage, listing, answers>>

\* loadProperties, the checks of USGSNasaRepository and its two directories.
Configure ==
    /\ Goto("configure", "login")
    /\ UNCHANGED <<storage, listing, answers>>

\* sebal.conf is missing or incomplete: Validate or parseInt throws.
ConfigureFails ==
    /\ pc = "configure"
    /\ Exit(1)
    /\ UNCHANGED <<storage, listing, answers>>

\* generateAPIKey answers null for whatever goes wrong.
Login ==
    /\ Goto("login", "search")
    /\ apiKey' \in BOOLEAN
    /\ UNCHANGED <<storage, listing, link, tier>>

GetImageName ==
    /\ Goto("search", "link")
    /\ UNCHANGED <<storage, listing, answers>>

\* No image, no answer, or one malformed row before the image is met.
ImageNotFound ==
    /\ pc = "search"
    /\ Exit(3)
    /\ UNCHANGED <<storage, listing, answers>>

\* getImageDownloadLink: an empty link, which is a malformed URL, without a key
\* or without an offer; the offered link may be malformed as well.
GetDownloadLink ==
    /\ Goto("link", "delete")
    /\ link' \in IF apiKey THEN {"malformed", "url"} ELSE {"malformed"}
    /\ UNCHANGED <<storage, listing, apiKey, tier>>

\* usgsDownloadURL rethrows, and nobody catches: the constructor fails.
GetDownloadLinkFails ==
    /\ pc = "link" /\ apiKey
    /\ Exit(1)
    /\ UNCHANGED <<storage, listing, answers>>

-----------------------------------------------------------------------------
(***************************************************************************)
(* downloadImage, under the handlers of startDownload                      *)
(***************************************************************************)

\* Mutant: the unpacked files of an earlier run are cleaned up with it.
DeleteOldTarball_AndScene ==
    /\ Goto("delete", "probe")
    /\ tarball' = [tarball EXCEPT ![image] = NoTarball]
    /\ scene' = [scene EXCEPT ![image].state = "none"]
    /\ mtl' = mtl \ {image}
    /\ UNCHANGED <<found, station, listing, answers>>

\* The tarball of an earlier run is deleted first.
DeleteOldTarball ==
    /\ Goto("delete", "probe")
    /\ tarball' = [tarball EXCEPT ![image] = NoTarball]
    /\ UNCHANGED <<scene, mtl, found, station, listing, answers>>

StorageIsEmpty == /\ \A i \in Images : /\ tarball[i] = NoTarball /\ found[i] = "none"
                                        /\ scene[i].state = "none"
                  /\ \A i \in DOMAIN station : station[i] = "none"

\* The storage directory could not be made: IOException.
NoStorageDirectory ==
    /\ pc = "delete" /\ StorageIsEmpty
    /\ Exit(4)
    /\ UNCHANGED <<storage, listing, answers>>

Reachable ==
    /\ Goto("probe", "copy")
    /\ link = "url"
    /\ UNCHANGED <<storage, listing, answers>>

\* Mutant: the HTTP status as exit status.
NotReachable_HttpStatus(code) ==
    /\ pc = "probe"
    /\ code = 3 <=> link = "malformed"
    /\ Exit(IF code = 5 THEN 404 ELSE code)
    /\ UNCHANGED <<storage, listing, answers>>

\* isReachable: a MalformedURLException for such a link, another
\* IOException, or an answer outside 200..399.
NotReachable(code) ==
    /\ pc = "probe"
    /\ code = 3 <=> link = "malformed"
    /\ Exit(code)
    /\ UNCHANGED <<storage, listing, answers>>

\* copyURLToFile truncates the target, then copies block by block.
CopyStarts ==
    /\ Goto("copy", "copying")
    /\ tarball' = [tarball EXCEPT ![image] = [content |-> "partial", by |-> run]]
    /\ UNCHANGED <<scene, mtl, found, station, listing, answers>>

\* copyURLToFile has met the end of what the server sends: the archive, one that
\* is damaged or cut off, or another document.  Nothing tells them apart.
CopyEnds(content) ==
    /\ Goto("copying", "unpack")
    /\ tarball' = [tarball EXCEPT ![image] = [content |-> content, by |-> run]]
    /\ UNCHANGED <<scene, mtl, found, station, listing, answers>>

\* Mutant: downloadInto logs the exception and answers 0.
CopyFails_Ignored ==
    /\ pc \in {"copy", "copying"} /\ Goto(pc, "unpack")
    /\ UNCHANGED <<storage, listing, answers>>

\* A timeout or a broken connection, before or while the file is written.
CopyFails ==
    /\ pc \in {"copy", "copying"}
    /\ Exit(4)
    /\ UNCHANGED <<storage, listing, answers>>

\* tar truncates and refills the files of the scene one after the other, as far
\* as the archive can be read.
UnpackStarts ==
    /\ Goto("unpack", "unpacking")
    /\ IF tarball[image].content = "garbage"
       THEN UNCHANGED <<scene, mtl>>
       ELSE /\ scene' = [scene EXCEPT ![image] = [state |-> "partial", by |-> run]]
            /\ mtl' \in {mtl, mtl \cup {image}}
    /\ UNCHANGED <<tarball, found, station, listing, answers>>

UnpackEnds ==
    /\ Goto("unpacking", "clean")
    /\ tarball[image].content = "whole"
    /\ scene' = [scene EXCEPT ![image] = [state |-> "whole", by |-> run]]
    /\ mtl' = mtl \cup {image}
    /\ UNCHANGED <<tarball, found, station, listing, answers>>

\* tar fails, as it must with a damaged archive: the scene stays as far as it
\* has come, and the exit value is only logged.
UnpackFails ==
    /\ Goto("unpacking", "clean")
    /\ UNCHANGED <<storage, listing, answers>>

\* builder.start() throws an IOException for tar or for get-station-data.sh.
StartFails ==
    /\ pc \in {"unpack", "preprocess"}
    /\ Exit(4)
    /\ UNCHANGED <<storage, listing, answers>>

DeleteTarball ==
    /\ Goto("clean", "tier")
    /\ tarball' = [tarball EXCEPT ![image] = NoTarball]
    /\ UNCHANGED <<scene, mtl, found, station, listing, answers>>

\* The first _MTL.txt in the order of listFiles, which is any order.
GetCollectionTierName ==
    /\ Goto("tier", "preprocess")
    /\ tier' \in IF mtl = {} THEN {NoTier} ELSE mtl
    /\ UNCHANGED <<storage, listing, apiKey, link>>

-----------------------------------------------------------------------------
(***************************************************************************)
(* get-station-data.sh: no command's status is looked at                   *)
(***************************************************************************)

\* PreProcessMain writes a station file, a part of it, or none.  Without a
\* name its other arguments shift and it fails.
PreProcess ==
    /\ Goto("preprocess", "mv")
    /\ IF tier = NoTier
       THEN UNCHANGED found
       ELSE \E f \in {found[tier], "partial", "data"} : found' = [found EXCEPT ![tier] = f]
    /\ UNCHANGED <<tarball, scene, mtl, station, listing, answers>>

\* mv, when there is a file, then rm -r of the directory.
MvStation ==
    /\ Goto("mv", "echo")
    /\ IF tier = NoTier \/ found[tier] = "none"
       THEN UNCHANGED <<found, station>>
       ELSE /\ station' = [station EXCEPT ![tier] = found[tier]]
            /\ found' = [found EXCEPT ![tier] = "none"]
    /\ UNCHANGED <<tarball, scene, mtl, listing, answers>>

\* Mutant: > instead of >>.
EchoBlankLine_Truncates ==
    /\ Goto("echo", "describe")
    /\ station' = [station EXCEPT ![tier] = "blank"]
    /\ UNCHANGED <<tarball, scene, mtl, found, listing, answers>>

\* Mutant: the line is only added to a file that is there.
EchoBlankLine_IfPresent ==
    /\ Goto("echo", "describe")
    /\ UNCHANGED <<storage, listing, answers>>

\* echo >> leaves a file of blank lines when there is no station file.
EchoBlankLine ==
    /\ Goto("echo", "describe")
    /\ station' = [station EXCEPT ![tier] = IF @ = "none" THEN "blank" ELSE @]
    /\ UNCHANGED <<tarball, scene, mtl, found, listing, answers>>

-----------------------------------------------------------------------------
(***************************************************************************)
(* saveMetadata                                                            *)
(***************************************************************************)

\* The paths are those of sebal.conf, not of the command line.
SaveMetadata ==
    /\ pc = "describe"
    /\ Exit(0)
    /\ listing' = run
    /\ UNCHANGED <<storage, answers>>

\* The file cannot be opened, or has been truncated when listFiles fails.
SaveMetadataFails ==
    /\ pc = "describe"
    /\ Exit(7)
    /\ listing' \in {listing, 0}
    /\ UNCHANGED <<storage, answers>>

\* The container is stopped.
Kill ==
    /\ Active
    /\ Exit(Killed)
    /\ UNCHANGED <<storage, listing, answers>>

Constructor == \/ WrongNumberOfArgs \/ Configure \/ ConfigureFails \/ Login
               \/ GetImageName \/ ImageNotFound
               \/ GetDownloadLink \/ GetDownloadLinkFails

DownloadImage == \/ DeleteOldTarball \/ NoStorageDirectory
                 \/ Reachable \/ (\E code \in {3, 4, 5} : NotReachable(code))
                 \/ CopyStarts \/ (\E content \in Documents : CopyEnds(content))
                 \/ CopyFails
                 \/ UnpackStarts \/ UnpackEnds \/ UnpackFails \/ StartFails
                 \/ DeleteTarball \/ GetCollectionTierName

GetStationData == PreProcess \/ MvStation \/ EchoBlankLine

Invocation == Constructor \/ DownloadImage \/ GetStationData
                          \/ SaveMetadata \/ SaveMetadataFails

Next == Invocation \/ Kill \/ \E i \in Images : Begin(i)

Spec == Init /\ [][Next]_vars

-----------------------------------------------------------------------------
(***************************************************************************)
(* Properties                                                              *)
(***************************************************************************)

\* Values of the variables.
TypeOK ==
    /\ tarball \in [Images -> [content : {"absent", "partial"} \cup Documents,
                               by : 0..MaxRuns]]
    /\ scene \in [Images -> [state : {"none", "partial", "whole"}, by : 0..MaxRuns]]
    /\ mtl \subseteq Images
    /\ found \in [Images -> {"none", "partial", "data"}]
    /\ station \in [Images \cup {NoTier} -> {"none", "blank", "partial", "data"}]
    /\ listing \in 0..MaxRuns /\ run \in 0..MaxRuns
    /\ pc \in {"ended", "configure", "login", "search", "link", "delete", "probe",
               "copy", "copying", "unpack", "unpacking", "clean", "tier",
               "preprocess", "mv", "echo", "describe"}
    /\ status \in {Running, Killed, 0, 1, 3, 4, 5, 6, 7}
    /\ image \in Images
    /\ apiKey \in BOOLEAN /\ link \in {"none", "malformed", "url"}
    /\ tier \in Images \cup {NoTier}

\* What tar unpacks is what THIS run has downloaded, to the end of what the
\* server sent: never the rest of a download that failed or was killed.
UnpacksOnlyItsOwnDownload ==
    pc \in {"unpack", "unpacking"} =>
        tarball[image].by = run /\ tarball[image].content \in Documents

\* A complete scene is only ever damaged by tar, in a run of the same image, over
\* an archive that this run has downloaded to the end of what the server sent:
\* neither a download that fails or is killed, nor another document in place of
\* the archive, costs an older scene.  (A damaged archive does, and so does a tar
\* that fails, and the run may still end with 0.)
SceneIsDamagedOnlyByUnpacking ==
    [][\A i \in Images : scene[i].state = "whole" /\ scene'[i].state # "whole"
            => /\ i = image
               /\ pc = "unpack" /\ tarball[i].by = run
               /\ tarball[i].content \in {"whole", "damaged"}]_vars

\* Station data, once there, is never replaced by a blank file: a search that
\* finds no station leaves what an earlier one has found.
StationDataIsNotBlanked ==
    [][\A i \in Images : station[i] \in {"partial", "data"}
            => station'[i] \in {"partial", "data"}]_vars

\* After exit status 0 the scene of a directory with one image has its
\* station file, if only a blank one: the worker's path to it is valid.
SoleSceneHasAStationFile ==
    status = 0 /\ mtl = {image} => station[image] # "none"
=============================================================================
