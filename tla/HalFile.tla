------------------------------ MODULE HalFile -------------------------------
(***************************************************************************)
(* The table of file descriptors, alt_fd_list with its highwater mark      *)
(* alt_max_fd.  A descriptor has a device and flags; the mode O_RDONLY is  *)
(* the absence of "WRONLY" and "RDWR".  No file system is registered.  The *)
(* calls open, close and ioctl are put together from these in Firmware.    *)
(***************************************************************************)
EXTENDS Integers

CONSTANT MaxFd                   \* ALT_MAX_FD

NoDev == "none"
NoFd == -1
StdIn == 0
StdOut == 1
StdErr == 2
Fd == 0 .. MaxFd - 1

(* The devices that alt_dev.c and alt_sys_init make known.                 *)
alt_dev_list == {"null", "console", "video"}

alt_find_dev(name) == IF name \in alt_dev_list THEN name ELSE NoDev

TakeFd(f, i, dev) == [f EXCEPT !.fd[i].dev = dev]
RaiseMax(f, i) == [f EXCEPT !.max = IF i > @ THEN i ELSE @]
OpenFlags(f, i, flags) == [f EXCEPT !.fd[i].flags = flags \cup {"DEV"}]

(* alt_release_fd, flags first.                                            *)
ClearFd(f, i) == [f EXCEPT !.fd[i].flags = {}]
FreeFd(f, i) == [f EXCEPT !.fd[i].dev = NoDev]

(* The two loops that look for another descriptor of the device.           *)
SameDevice(f, i, n) == i # n /\ f.fd[i].dev = f.fd[n].dev
LockedBy(f, i, n) == SameDevice(f, i, n) /\ "EXCL" \in f.fd[i].flags

(* Mutant: the highest descriptor is not looked at.                        *)
LastLookedShort(f) == f.max - 1

LastLooked(f) == f.max

alt_fd_unlock(f, i) == [f EXCEPT !.fd[i].flags = @ \ {"EXCL"}]
alt_fcntl(f, i, flags) == [f EXCEPT !.fd[i].flags = (@ \ {"NONBLOCK"}) \cup flags]

MayRead(f, i) == "WRONLY" \notin f.fd[i].flags
MayWrite(f, i) == f.fd[i].flags \cap {"WRONLY", "RDWR"} # {}

-----------------------------------------------------------------------------
(* Before main: everything goes nowhere, then to the console.              *)

alt_fd_list ==
    [fd |-> [i \in Fd |-> [dev |-> IF i <= StdErr THEN "null" ELSE NoDev,
                           flags |-> {}]],
     max |-> -1]

(* A descriptor is opened, copied to n and released again.                 *)
alt_open_fd(f, n, name, flags) ==
    LET i == CHOOSE j \in Fd : /\ f.fd[j].dev = NoDev
                               /\ \A h \in 0 .. j - 1 : f.fd[h].dev # NoDev
        opened == OpenFlags(RaiseMax(TakeFd(f, i, alt_find_dev(name)), i), i, flags)
    IN FreeFd(ClearFd([opened EXCEPT !.fd[n] = opened.fd[i]], i), i)

alt_io_redirect ==
    LET out == alt_open_fd(alt_fd_list, StdOut, "console", {"WRONLY"})
        in == alt_open_fd(out, StdIn, "console", {})
    IN alt_open_fd(in, StdErr, "console", {"WRONLY"})
=============================================================================
