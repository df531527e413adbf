----------------------------- MODULE PinnedFiles -----------------------------
(***************************************************************************)
(* The files of one model and what a session has pinned of them            *)
(* (FileStamp and FileSnapshot of                                          *)
(* backend/src/llm_model_explorer/model_files.py, check_unchanged of       *)
(* tensor_source.py).                                                      *)
(*                                                                         *)
(* The files go through versions that never come back, because the inode   *)
(* and the times are part of a stamp; versions may well have the same      *)
(* content, which is all that a fingerprint tells apart.                   *)
(***************************************************************************)
EXTENDS Naturals

CONSTANTS
    Versions,   \* the files have the versions 0..Versions in turn
    Content,
    ContentOf   \* the content of each version

ASSUME FilesAssumption ==
    /\ Versions \in Nat
    /\ ContentOf \in [0..Versions -> Content]

VARIABLE disk   \* the version the files have

\* The fingerprint of a source that pinned version v.
Fingerprint(v) == ContentOf[v]

\* check_unchanged(), with or without a rehash: it compares the stamps before anything.
Unchanged(v) == disk = v

\* What another program does to the files.
Change == disk < Versions /\ disk' = disk + 1
=============================================================================
