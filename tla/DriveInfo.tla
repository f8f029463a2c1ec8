------------------------------ MODULE DriveInfo ------------------------------
(***************************************************************************)
(* The drive queries of aedevice.cpp: getAvailableDrives lists the drive   *)
(* letters whose device can be opened; getDriveInfo(letter) collects the   *)
(* drive type, geometry, storage descriptor strings and device number,     *)
(* then follows HKLM\SYSTEM\MountedDevices\\DosDevices\X: to the device    *)
(* instance path and asks the configuration manager for its id and its    *)
(* parent's.  Both are sequential; between calls other software attaches  *)
(* and detaches drives.                                                    *)
(*                                                                         *)
(* A drive is a record chosen from Devices (see MC_DriveInfo).  The       *)
(* returned HashMap is abstracted to its set of keys, with the one string *)
(* the code computes itself, OSDeviceID, kept as a sequence of char codes.*)
(* A MountedDevices value is a sequence of WCHAR codes.                    *)
(***************************************************************************)
EXTENDS Naturals, Sequences, FiniteSets
LOCAL INSTANCE SequencesExt

CONSTANTS
    Letters,      \* drive indices nDrive (0 is A:) the model uses
    Devices,      \* the drives that may be attached (records, see DeviceType)
    NoDrive,      \* the "device" of a letter with nothing attached
    MountValues,  \* MountValues[dev]: MountedDevices values the registry may hold
    OddBytes,     \* whether a value may hold one byte past its last WCHAR:
                  \* {FALSE}, or BOOLEAN for values other software wrote
    MaxEnv        \* bound on attach and detach steps

ASSUME Letters \subseteq 0..31

Brace == 123        \* '{'
Hash == 35          \* '#'
Backslash == 92     \* '\\'

(* char c = value[i]: the WCHAR is truncated to its low byte. *)
LowByte(w) == w % 256

(* The C string a char buffer holds: its characters up to the first NUL. *)
CStr(s) ==
    LET z == {i \in 1..Len(s) : s[i] = 0}
    IN IF z = {} THEN s ELSE SubSeq(s, 1, (CHOOSE i \in z : \A j \in z : i <= j) - 1)

(***************************************************************************)
(* getDriveInfo's loop over the MountedDevices value, from WCHAR 4 on:    *)
(* each low byte is appended to devname ('#' as '\\') until a '{', where a *)
(* '\\' just written is overwritten with 0.  devname[pos - 1] is read at  *)
(* pos = 0 when the '{' is the first character: the read before devname.  *)
(***************************************************************************)
RECURSIVE ScanDevName(_, _, _)
ScanDevName(v, i, dn) ==
    IF i >= Len(v) THEN [dn |-> dn, oob |-> FALSE]
    ELSE LET c == LowByte(v[i + 1]) IN
         IF c = Brace
           THEN IF dn = <<>>
                  THEN [dn |-> dn, oob |-> TRUE]
                  ELSE [dn |-> IF dn[Len(dn)] = Backslash THEN [dn EXCEPT ![Len(dn)] = 0] ELSE dn,
                        oob |-> FALSE]
           ELSE ScanDevName(v, i + 1, Append(dn, IF c = Hash THEN Backslash ELSE c))

(* A scan that starts at WCHAR 3 instead of 4. *)
ParseDevNameFrom3(v) == ScanDevName(v, 3, <<>>)
ParseDevName(v) == ScanDevName(v, 4, <<>>)

(* What the parse is for: the device instance path inside a value of the  *)
(* form \??\<path with # for \>#{<interface guid>}, stated without the    *)
(* loop: the characters after the first four and before the first '{',   *)
(* with '#' read as '\\', a last '\\' dropped, up to the first NUL.        *)
RefDevName(v) ==
    LET body == [i \in 1..(Len(v) - 4) |-> LowByte(v[i + 4])]
        braces == {i \in DOMAIN body : body[i] = Brace}
        stop == IF braces = {} THEN Len(body)
                ELSE (CHOOSE i \in braces : \A j \in braces : i <= j) - 1
        pre == [i \in 1..stop |-> IF body[i] = Hash THEN Backslash ELSE body[i]]
        cut == IF braces # {} /\ stop > 0 /\ pre[stop] = Backslash
                 THEN SubSeq(pre, 1, stop - 1) ELSE pre
    IN CStr(cut)

DescFields == {"VendorID", "ProductID", "ProductRevision", "SerialNumber"}

(* What a drive answers: GetDriveTypeA; whether CreateFileW on \\.\X:      *)
(* opens it; whether IOCTL_DISK_GET_DRIVE_GEOMETRY succeeds (a disk is in  *)
(* the drive); the IOCTL_STORAGE_QUERY_PROPERTY descriptor (its Size and   *)
(* the offsets of its strings, 0 for none); IOCTL_STORAGE_GET_DEVICE_NUMBER;*)
(* and the configuration manager's answers for its instance path.          *)
DeviceType ==
    [type: {"fixed", "removable", "cdrom", "remote", "none"}, opens: BOOLEAN,
     media: BOOLEAN, desc: [ok: BOOLEAN, size: Nat, offs: [DescFields -> Nat]],
     devnum: BOOLEAN,
     cm: [found: BOOLEAN, id: Seq(STRING), parent: Seq(STRING)]]

OutBufSize == 1024                      \* char OutBuf[1024]
SubkeySize == 14                        \* char subkey[14]
DosDevicesLen == Len("\\DosDevices\\")  \* the format's text before %C:

VARIABLES
    drives,       \* drives[d]: the device attached at letter d
    listed,       \* the letters the last getAvailableDrives returned
    fresh,        \* no drive was attached or detached since that call
    info,         \* the last getDriveInfo call: its letter, device, keys, OSDeviceID
                  \* and the configuration manager's puts,
                  \* and whether it came after getAvailableDrives with no change since
    oob,          \* ghost: places some call read or wrote outside a buffer
    envSteps

vars == <<drives, listed, fresh, info, oob, envSteps>>

NoInfo == [letter |-> 32,  \* no call yet (32 is no drive index)
           afterList |-> FALSE, opened |-> FALSE, keys |-> {}, mount |-> <<>>,
           reported |-> FALSE, osDevId |-> <<>>, device |-> NoDrive, cm |-> <<>>]

Init ==
    /\ drives \in [Letters -> Devices \cup {NoDrive}]
    /\ listed = {} /\ fresh = FALSE
    /\ info = NoInfo /\ oob = {} /\ envSteps = 0

(* getAvailableDrives' test of one letter: its bit in GetLogicalDrives, a  *)
(* type other than DRIVE_REMOTE, and a device CreateFileW can open.        *)
Listed(dev) == dev # NoDrive /\ dev.type # "remote" /\ dev.opens

(* getAvailableDrives: the loop over the 32 bits of GetLogicalDrives,      *)
(* adding a java.io.File for each letter that passes, in letter order.     *)
GetAvailableDrives ==
    /\ listed' = {d \in Letters : Listed(drives[d])}
    /\ fresh' = TRUE
    /\ info' = [info EXCEPT !.afterList = FALSE]
    /\ UNCHANGED <<drives, oob, envSteps>>

(* GetDriveGeometry(hDevice, &pdg): IOCTL_DISK_GET_DRIVE_GEOMETRY, which *)
(* succeeds when a disk is in the drive; MediaType and DiskSize follow.    *)
GeometryKeys(dev) == IF dev.media THEN {"MediaType", "DiskSize"} ELSE {}

(* GetStorageProperty(hDevice, &pDevDesc): IOCTL_STORAGE_QUERY_PROPERTY   *)
(* for StorageDeviceProperty into OutBuf, with pDevDesc->Size as its size. *)
StorageQueryOk(dev) == dev.desc.ok

(* The descriptor's keys: its string offsets are kept when               *)
(* 0 < offset < pDevDesc->Size.                                           *)
DescKeys(dev) ==
    IF StorageQueryOk(dev)
      THEN {"BusType", "DeviceType", "Removable"}
           \cup {f \in DescFields : 0 < dev.desc.offs[f] /\ dev.desc.offs[f] < dev.desc.size}
      ELSE {}

DescOverread(dev) ==
    \E f \in DescKeys(dev) \cap DescFields : dev.desc.offs[f] >= OutBufSize

(***************************************************************************)
(* The configuration manager's device ids, as sequences of characters.    *)
(* CM_Get_Device_ID writes an id and its NUL into a WCHAR[buflen] whose   *)
(* buflen is CM_Get_Device_ID_Size plus one; what lies past it is another *)
(* heap block's bytes (Junk).                                              *)
(***************************************************************************)
Nul == "NUL"
Junk == "junk"
IdLimit == 2048                   \* ids of 2048 WCHARs or more are skipped
Buffer(id) == id \o <<Nul>>

(* NewString(val, val_len) over a buffer: the val_len WCHARs from val. *)
ReadChars(buf, from, n) == [i \in 1..n |-> IF from + i - 1 <= Len(buf) THEN buf[from + i - 1] ELSE Junk]
Overreads(buf, from, n) == from + n - 1 > Len(buf)

(* wcsstr(str, tag): the index of the first occurrence, 0 for NULL. *)
RECURSIVE WcsStrFrom(_, _, _)
WcsStrFrom(id, tag, i) ==
    IF i + Len(tag) - 1 > Len(id) THEN 0
    ELSE IF SubSeq(id, i, i + Len(tag) - 1) = tag THEN i ELSE WcsStrFrom(id, tag, i + 1)
WcsStr(id, tag) == WcsStrFrom(id, tag, 1)

VidTag == <<"V", "I", "D", "_">>
PidTag == <<"P", "I", "D", "_">>
VidPidLenWide == 5
VidPidLen == 4                    \* addToMap(..., vid, 4)

(* findVID_PID(str): after each tag found, the next four WCHARs, whether  *)
(* or not the id goes on that far.  Each put is [key, val, over].          *)
FindVidPid(id) ==
    LET Put(k, at) == [key |-> k, val |-> ReadChars(Buffer(id), at, VidPidLen),
                       over |-> Overreads(Buffer(id), at, VidPidLen)]
        v == WcsStr(id, VidTag)
        p == WcsStr(id, PidTag)
    IN (IF v # 0 THEN <<Put("VID", v + 4)>> ELSE <<>>)
       \o (IF p # 0 THEN <<Put("PID", p + 4)>> ELSE <<>>)

(* One id of CMStuff: when shorter than IdLimit, addToMap(key, buffer,    *)
(* buflen), buflen counting the NUL, then findVID_PID on the buffer.       *)
IdPuts(id, key) ==
    IF Len(id) < IdLimit
      THEN <<[key |-> key, val |-> ReadChars(Buffer(id), 1, Len(id) + 1), over |-> FALSE]>>
           \o FindVidPid(id)
      ELSE <<>>

(* CMStuff(devID): CM_Locate_DevNodeA and CM_Get_Parent (both succeed or  *)
(* the call returns), then the device's id and its parent's, in that      *)
(* order: HashMap.put of a key already put (VID, PID) replaces its value.  *)
CMStuff(cm) ==
    IF ~cm.found THEN <<>>
    ELSE IdPuts(cm.id, "DevInst_DevID") \o IdPuts(cm.parent, "DevInstParent_DevID")

(* The puts of each device that may be attached. *)
DevicePuts == [dev \in Devices |-> CMStuff(dev.cm)]

(* What the HashMap holds for key k after the puts. *)
MapGet(puts, k) == puts[SelectLastInSeq(puts, LAMBDA q : q.key = k)].val

(* valuesize, the byte size of a MountedDevices value of WCHARs mv and one *)
(* byte more when odd.  new WCHAR[valuesize / 2] holds 2 * (valuesize / 2) *)
(* bytes, and RegQueryValueExA writes valuesize into it.                  *)
ValueSize(mv, odd) == 2 * Len(mv) + (IF odd THEN 1 ELSE 0)
ValueOverrun(size) == size > 2 * (size \div 2)

(* getDriveInfo(driveLetter).  A remote drive gives an empty map; a device *)
(* that does not open gives DriveType alone.  Otherwise the queries above, *)
(* then wsprintfA(subkey, "\\DosDevices\\%C:") and the MountedDevices      *)
(* value, used when longer than 8 bytes: its parse is reported (and passed *)
(* to CMStuff) when devname[0] is not 0; at pos 0 devname[0] was never     *)
(* written, and what it holds decides.                                     *)
GetDriveInfo(d) ==
    LET dev == drives[d] IN
    /\ IF dev.type = "remote"
         THEN info' = [NoInfo EXCEPT !.letter = d, !.afterList = fresh] /\ UNCHANGED oob
       ELSE IF ~dev.opens
         THEN info' = [NoInfo EXCEPT !.letter = d, !.afterList = fresh, !.keys = {"DriveType"}]
              /\ UNCHANGED oob
       ELSE \E mv \in MountValues[dev] \cup {<<>>}, odd \in OddBytes, uninit \in BOOLEAN :
            LET size == ValueSize(mv, odd)
                used == size > 8
                p == ParseDevName(mv)
                reported == used /\ IF p.dn = <<>> THEN uninit ELSE p.dn[1] # 0
                name == IF p.dn = <<>> THEN <<>> ELSE CStr(p.dn)
                puts == IF reported THEN DevicePuts[dev] ELSE <<>>
            IN /\ info' = [letter |-> d, afterList |-> fresh, opened |-> TRUE, mount |-> mv,
                           reported |-> reported, osDevId |-> name,
                           device |-> dev, cm |-> puts,
                           keys |-> {"DriveType"}
                                    \cup GeometryKeys(dev)
                                    \cup DescKeys(dev)
                                    \cup (IF dev.devnum THEN {"DeviceNumber"} ELSE {})
                                    \cup (IF reported THEN {"OSDeviceID"} \cup {q.key : q \in ToSet(puts)} ELSE {})]
               /\ oob' = oob \cup (IF DescOverread(dev) THEN {"outbuf"} ELSE {})
                             \cup (IF DosDevicesLen + 2 + 1 > SubkeySize THEN {"subkey"} ELSE {})
                             \cup (IF used /\ ValueOverrun(size) THEN {"value"} ELSE {})
                             \cup (IF used /\ p.oob THEN {"devname"} ELSE {})
                             \cup (IF \E q \in ToSet(puts) : q.over THEN {"vidpid"} ELSE {})
    /\ UNCHANGED <<drives, listed, fresh, envSteps>>

(* Other software attaches a drive at a free letter or detaches one. *)
Attach ==
    /\ envSteps < MaxEnv
    /\ \E d \in Letters, dev \in Devices :
         drives[d] = NoDrive /\ drives' = [drives EXCEPT ![d] = dev]
    /\ envSteps' = envSteps + 1 /\ fresh' = FALSE
    /\ UNCHANGED <<listed, info, oob>>

Detach ==
    /\ envSteps < MaxEnv
    /\ \E d \in Letters : drives[d] # NoDrive /\ drives' = [drives EXCEPT ![d] = NoDrive]
    /\ envSteps' = envSteps + 1 /\ fresh' = FALSE
    /\ UNCHANGED <<listed, info, oob>>

Next == GetAvailableDrives \/ (\E d \in Letters : GetDriveInfo(d)) \/ Attach \/ Detach

Spec == Init /\ [][Next]_vars

-----------------------------------------------------------------------------
(* The OSDeviceID getDriveInfo reports is the device instance path of the  *)
(* MountedDevices value: the char-by-char loop, its low-byte truncation,   *)
(* '#' rewriting and the overwrite of a '\\' before '{' agree with the     *)
(* declarative reading of the value.                                       *)
DevNameMatchesReference ==
    info.reported /\ info.osDevId # <<>> => info.osDevId = RefDevName(info.mount)

(* The comment in getAvailableDrives: a drive whose GetDriveGeometry fails *)
(* has no disk in it and is not listed.                                    *)
ListedDrivesHaveMedia == fresh => \A d \in listed : drives[d].media

(* wsprintfA of "\\DosDevices\\%C:" fits in subkey. *)
SubkeyInBounds == "subkey" \notin oob

(* Every descriptor string getDriveInfo reports starts inside OutBuf. *)
DescriptorInBounds == "outbuf" \notin oob

(* findVID_PID's four WCHARs after "VID_" or "PID_" lie inside the id's   *)
(* buffer (its NUL included), for every id the configuration manager      *)
(* reports for the device or its parent.                                  *)
VidPidInBounds == "vidpid" \notin oob

(* The DevInst_DevID getDriveInfo reports is the device's id: buflen was  *)
(* incremented to "add space for null", not to make the NUL part of it.   *)
DevIdIsDeviceId ==
    "DevInst_DevID" \in info.keys
      => MapGet(info.cm, "DevInst_DevID") = info.device.cm.id

(* The second RegQueryValueExA of getDriveInfo writes the MountedDevices   *)
(* value inside the WCHAR array allocated for it from its size.           *)
ValueInBounds == "value" \notin oob

(* The devname loop never reads before devname. *)
DevNameInBounds == "devname" \notin oob

=============================================================================
