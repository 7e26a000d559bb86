---------------------------- MODULE MCFirmwareInv ----------------------------
(***************************************************************************)
(* The programs of MCFirmware, and for each of them that deletes objects   *)
(* the plain one that does not: the run explores both, and checks the      *)
(* inductive invariants on all that are plain and on all whose locks are   *)
(* guarded.                                                                *)
(***************************************************************************)
EXTENDS MCFirmware, FirmwareLocks

Deletions == {"SemDel", "MboxDel", "QDel", "FlagDel"}
Stays(p, c) == c.op \notin Deletions /\ (c.op \in CreateOps => Declares(p, c.obj, "NONE"))
Kept(p) ==
    [p EXCEPT !.tasks = [i \in DOMAIN @ |->
       [@[i] EXCEPT !.menu = {c \in @ : Stays(p, c)}]]]

MCPlain ==
    {Semaphores, Kept(Signals), Mailboxes, Kept(Notices), Queues, Kept(QueueNotices),
     Kept(EventFlags), MultiProgram, Suspensions, LibraryProgram, Writer, Writers, Readers,
     AtOnce("Write", StdOut, {"takes"}), AtOnce("Read", StdIn, {"types"}),
     Session({"takes"}), Session({"silent"}), FileProgram}

MCAllPrograms == MCPrograms \cup MCPlain

MCGuarded ==
    {Semaphores, LibraryProgram, Writer, Writers, Readers,
     AtOnce("Write", StdOut, {"takes"}), AtOnce("Read", StdIn, {"types"}),
     Session({"takes"}), Session({"silent"}), FileProgram}

ASSUME MCPlainPrograms == \A p \in MCPlain : Plain(p)
ASSUME MCGuardedPrograms == \A p \in MCGuarded : p \in MCPlain /\ Guarded(p)
=============================================================================
