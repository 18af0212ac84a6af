----------------------------- MODULE EventSchema -----------------------------
(***************************************************************************)
(* The events of etw/event/: for each event class the properties its       *)
(* events carry, in the order in which the kernel writes them, and for     *)
(* each record structure what its constructor does with them.              *)
(*                                                                         *)
(* A layout has the category and the types of its events and the sequence  *)
(* of its properties.  A property has the name the decoder compares, a     *)
(* kind, and a count where it is an array.                                 *)
(*                                                                         *)
(* A reader has the names a constructor looks up once and keeps            *)
(* (located), those whose size must not be 0 (tested), those it copies     *)
(* (copied), the strings it points to at a kept offset (text), the string  *)
(* that must lie behind all that is tested (last), and the strings it      *)
(* looks up for every event (fresh).                                       *)
(***************************************************************************)
EXTENDS Integers, Sequences

NoName == ""

Property(n, k) == [name |-> n, kind |-> k, count |-> 1]
All(k, names) == [i \in DOMAIN names |-> Property(names[i], k)]
Names(layout) == {layout.properties[i].name : i \in DOMAIN layout.properties}
Layout(category, types, properties) ==
  [category |-> category, types |-> types, properties |-> properties]

-----------------------------------------------------------------------------
(* FileIo *)

FileIoCreate == Layout("FileIo", {64},
  All("uint32", <<"IrpPtr", "TTID", "FileObject", "CreateOptions", "FileAttributes",
                  "ShareAccess">>) \o All("wide", <<"OpenPath">>))
FileIoDirEnum == Layout("FileIo", {72, 77},
  All("uint32", <<"IrpPtr", "TTID", "FileObject", "FileKey", "Length", "InfoClass",
                  "FileIndex">>) \o All("wide", <<"FileName">>))
FileIoInfo == Layout("FileIo", {69, 70, 71, 74, 75},
  All("uint32", <<"IrpPtr", "TTID", "FileObject", "FileKey", "ExtraInfo", "InfoClass">>))
FileIoName == Layout("FileIo", {0, 32, 35, 36},
  All("uint32", <<"FileObject">>) \o All("wide", <<"FileName">>))
FileIoOpEnd == Layout("FileIo", {76}, All("uint32", <<"IrpPtr", "ExtraInfo", "NtStatus">>))
FileIoReadWrite == Layout("FileIo", {67, 68},
  All("uint64", <<"Offset">>)
    \o All("uint32", <<"IrpPtr", "TTID", "FileObject", "FileKey", "IoSize", "IoFlags">>))
FileIoSimpleOp == Layout("FileIo", {65, 66, 73},
  All("uint32", <<"IrpPtr", "TTID", "FileObject", "FileKey">>))

(* Process, thread, image *)

ProcessTypeGroup1 == Layout("Process", {1, 2, 3, 4, 39},
  All("uint32", <<"UniqueProcessKey", "ProcessId", "ParentId", "SessionId", "ExitStatus",
                  "DirectoryTableBase">>)
    \o All("Sid", <<"UserSID">>) \o All("ansi", <<"ImageFileName">>)
    \o All("wide", <<"CommandLine">>))
ThreadTypeGroup1 == Layout("Thread", {1, 2, 3, 4},
  All("uint32", <<"ProcessId", "TThreadId", "StackBase", "StackLimit", "UserStackBase",
                  "UserStackLimit", "Affinity", "Win32StartAddr", "TebBase",
                  "SubProcessTag">>)
    \o All("uint8", <<"BasePriority", "PagePriority", "IoPriority", "ThreadFlags">>))
ImageLoad == Layout("ImageLoad", {10, 2, 3, 4},
  All("uint32", <<"ImageBase", "ImageSize", "ProcessId", "ImageCheckSum", "TimeDateStamp",
                  "Reserved0", "DefaultBase", "Reserved1", "Reserved2", "Reserved3",
                  "Reserved4">>) \o All("wide", <<"FileName">>))

(* Registry, disk, memory, system calls *)

\* The first is looked up as "Initial Time", with a space.
RegistryTypeGroup1 == Layout("Registry", 10 .. 27,
  All("uint64", <<"InitialTime">>) \o All("uint32", <<"Status", "Index", "KeyHandle">>)
    \o All("wide", <<"KeyName">>))
DiskIoTypeGroup1 == Layout("DiskIo", {10, 11},
  All("uint32", <<"DiskNumber", "IrpFlags", "TransferSize", "Reserved">>)
    \o All("uint64", <<"ByteOffset">>) \o All("uint32", <<"FileObject", "Irp">>)
    \o All("uint64", <<"HighResResponseTime">>) \o All("uint32", <<"IssuingThreadId">>))
PageFaultVirtualAlloc == Layout("PageFault", {98, 99},
  All("uint64", <<"BaseAddress", "RegionSize", "ProcessId", "Flags">>))
SysCallEnter == Layout("PerfInfo", {51}, All("uint32", <<"SysCallAddress">>))

(* Network: declared, read by nobody *)

Addresses == All("uint32", <<"pid", "size">>)
Peers(family) == All(family, <<"daddr", "saddr">>) \o All("Port", <<"dport", "sport">>)
Tail2 == All("uint32", <<"seqnum", "connid">>)
TcpIpFail == Layout("TcpIp", {17}, All("uint16", <<"Proto", "FailureCode">>))
TcpIpSend(family, types) == Layout("TcpIp", types,
  Addresses \o Peers(family) \o All("uint32", <<"startime", "endtime">>) \o Tail2)
TcpIpTypeGroup1(family, types) == Layout("TcpIp", types, Addresses \o Peers(family) \o Tail2)
TcpIpTypeGroup2(family, types) == Layout("TcpIp", types,
  Addresses \o Peers(family) \o All("uint16", <<"mss", "sackopt", "tsopt", "wsopt">>)
    \o All("uint32", <<"rcvwin">>) \o All("sint16", <<"rcvwinscale", "sndwinscale">>) \o Tail2)
UdpIpFail == Layout("UdpIp", {17}, All("uint16", <<"Proto", "FailureCode">>))
UdpIpTypeGroup1(family, types) == Layout("UdpIp", types, Addresses \o Peers(family) \o Tail2)

NetworkLayouts ==
  {TcpIpFail, UdpIpFail,
   TcpIpSend("IPAddr", {10}), TcpIpSend("IPAddrV6", {26}),
   TcpIpTypeGroup1("IPAddr", {11, 13, 14, 16, 18}),
   TcpIpTypeGroup1("IPAddrV6", {27, 29, 30, 32, 34}),
   TcpIpTypeGroup2("IPAddr", {12, 15}), TcpIpTypeGroup2("IPAddrV6", {28, 31}),
   UdpIpTypeGroup1("IPAddr", {10, 11}), UdpIpTypeGroup1("IPAddrV6", {26, 27})}

-----------------------------------------------------------------------------
(* The constructors *)

Reader(layout, located, tested, copied, text, last, fresh) ==
  [layout |-> layout, located |-> located, tested |-> tested, copied |-> copied,
   text |-> text, last |-> last, fresh |-> fresh]

\* A constructor that looks up, tests and copies every property.
CopiesAll(layout) ==
  Reader(layout, Names(layout), Names(layout), Names(layout), {}, NoName, {})

\* A constructor that does so with all but a string, which must lie last.
EndsIn(layout, s, copied) ==
  Reader(layout, Names(layout), Names(layout) \ {s}, copied, {s}, s, {})

FileIoCreateMember == EndsIn(FileIoCreate, "OpenPath", Names(FileIoCreate) \ {"OpenPath"})
FileIoDirEnumMember == EndsIn(FileIoDirEnum, "FileName", {"IrpPtr", "TTID", "FileObject"})
FileIoInfoMember == CopiesAll(FileIoInfo)
FileIoNameMember == EndsIn(FileIoName, "FileName", {"FileObject"})
FileIoOpEndMember == CopiesAll(FileIoOpEnd)
FileIoReadWriteMember == CopiesAll(FileIoReadWrite)
FileIoSimpleOpMember == CopiesAll(FileIoSimpleOp)

\* Mutant of ProcessTypeGroup1Member: the place of the image name is kept, too.
ProcessTypeGroup1MemberKept ==
  LET fixed == Names(ProcessTypeGroup1) \ {"UserSID", "ImageFileName", "CommandLine"}
  IN  Reader(ProcessTypeGroup1, fixed \cup {"ImageFileName"}, fixed, fixed, {"ImageFileName"},
             NoName, {"CommandLine"})

ProcessTypeGroup1Member ==
  LET fixed == Names(ProcessTypeGroup1) \ {"UserSID", "ImageFileName", "CommandLine"}
  IN  Reader(ProcessTypeGroup1, fixed, fixed, fixed, {}, NoName, {"ImageFileName", "CommandLine"})

ThreadTypeGroup1Member == CopiesAll(ThreadTypeGroup1)
ImageLoadMember ==
  LET used == {"ImageBase", "ImageSize", "ProcessId", "ImageCheckSum", "TimeDateStamp"}
  IN  Reader(ImageLoad, used \cup {"Reserved0", "DefaultBase", "FileName"},
             used \cup {"FileName"}, used, {"FileName"}, NoName, {})
RegistryTypeGroup1Member ==
  Reader(RegistryTypeGroup1, Names(RegistryTypeGroup1), Names(RegistryTypeGroup1),
         Names(RegistryTypeGroup1) \ {"KeyName"}, {"KeyName"}, NoName, {})
DiskIoTypeGroup1Member == CopiesAll(DiskIoTypeGroup1)
PageFaultVirtualAllocMember == CopiesAll(PageFaultVirtualAlloc)
SysCallEnterMember == CopiesAll(SysCallEnter)

Readers ==
  {FileIoCreateMember, FileIoDirEnumMember, FileIoInfoMember, FileIoNameMember,
   FileIoOpEndMember, FileIoReadWriteMember, FileIoSimpleOpMember,
   ProcessTypeGroup1Member, ThreadTypeGroup1Member, ImageLoadMember,
   RegistryTypeGroup1Member, DiskIoTypeGroup1Member, PageFaultVirtualAllocMember,
   SysCallEnterMember}

=============================================================================
