----------------------------- MODULE Downloads -----------------------------
(***************************************************************************)
(* GithubChecker's downloads (src/backend/updater/github_checker.cpp) for  *)
(* the two views that flash what they download, DfuFlashView.qml and       *)
(* SwdRecoveryView.qml.  The views share one GithubChecker, which keeps    *)
(* one destination for all the replies it waits for; a view hears its      *)
(* signals only while it is the active one.                                *)
(***************************************************************************)
EXTENDS FlashBanks, Sequences, SequencesExt

VARIABLES
    dest,         \* m_downloadDest: the name of a file in the temporary folder
    replies,      \* the replies waited for: the image each will bring, for whom
    active,       \* the view on the screen
    downloading,  \* view.downloading, of each view
    selected,     \* view.selectedFilePath, of each view
    overlapped,   \* history: a download was asked while another was under way
    missed        \* history: the views whose download failed, or was not heard of

dlVars == <<dest, replies, active, downloading, selected, overlapped, missed>>

View == {"dfu", "swd"}
Reply == [image : Image, view : View]

DlInit ==
    /\ dest = None /\ replies = <<>>
    /\ active \in View
    /\ downloading = [v \in View |-> FALSE] /\ selected = [v \in View |-> None]
    /\ overlapped = FALSE /\ missed = {}

\* Mutant of SetDest: the destination of the first download is kept.
SetDestOnce(image) == dest' = IF dest = None THEN image ELSE dest
SetDest(image) == dest' = image

\* downloadAsset(): the button is disabled while its own view downloads.
DownloadAsset(image) ==
    /\ ~downloading[active]
    /\ downloading' = [downloading EXCEPT ![active] = TRUE]
    /\ SetDest(image)
    /\ replies' = Append(replies, [image |-> image, view |-> active])
    /\ overlapped' = (overlapped \/ replies # <<>>)
    /\ UNCHANGED <<active, selected, missed, files>>

\* The older firmware files of the temporary folder are removed.
CleanUp(name) == [n \in Image |-> IF n = name THEN files[n] ELSE None]

\* Mutant of Heard: the view keeps its download button disabled.
HeardBusy == selected' = [selected EXCEPT ![active] = dest] /\ UNCHANGED downloading

\* onDownloadComplete() of the active view.
Heard ==
    /\ selected' = [selected EXCEPT ![active] = dest]
    /\ downloading' = [downloading EXCEPT ![active] = FALSE]

\* onDownloadReply(): the data go to the destination of the latest download.  A
\* redirection, which Qt 6 follows by itself, would keep that destination.
DownloadArrives(i) ==
    /\ files' = [CleanUp(dest) EXCEPT ![dest] = replies[i].image]
    /\ replies' = RemoveAt(replies, i)
    /\ Heard
    /\ missed' = (missed \cup {replies[i].view}) \ {active}
    /\ UNCHANGED <<dest, active, overlapped>>

\* An error reply, or a file that cannot be written: neither view has a handler
\* of downloadError().
DownloadFails(i) ==
    /\ replies' = RemoveAt(replies, i)
    /\ files' \in {files, IF dest = None THEN files ELSE CleanUp(dest)}
    /\ missed' = missed \cup {replies[i].view}
    /\ UNCHANGED <<dest, active, downloading, selected, overlapped>>

Network == \E i \in DOMAIN replies : DownloadArrives(i) \/ DownloadFails(i)

\* Another view is chosen in the sidebar; a file is chosen in a file dialog.
Navigate ==
    /\ active' = IF active = "dfu" THEN "swd" ELSE "dfu"
    /\ UNCHANGED <<dest, replies, downloading, selected, overlapped, missed, files>>
Browse(name) ==
    /\ files[name] # None
    /\ selected' = [selected EXCEPT ![active] = name]
    /\ UNCHANGED <<dest, replies, active, downloading, overlapped, missed, files>>

DlTypeOK ==
    /\ dest \in Image \cup {None} /\ replies \in Seq(Reply)
    /\ active \in View
    /\ downloading \in [View -> BOOLEAN] /\ selected \in [View -> Image \cup {None}]
    /\ overlapped \in BOOLEAN /\ missed \subseteq View
=============================================================================
