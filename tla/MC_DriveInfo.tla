----------------------------- MODULE MC_DriveInfo -----------------------------
(* Drives C: and D:, and the kinds of device that can be attached there.  *)
EXTENDS DriveInfo

\* Values of whole WCHARs only, or possibly with one byte more.
EvenBytes == {FALSE}
AnyBytes == BOOLEAN
CDLetters == {2, 3}
CLetter == {2}

Desc(size, vendor, product, revision, serial) ==
    [ok |-> TRUE, size |-> size,
     offs |-> [f \in DescFields |->
                 CASE f = "VendorID" -> vendor [] f = "ProductID" -> product
                   [] f = "ProductRevision" -> revision [] f = "SerialNumber" -> serial]]
NoDesc == [ok |-> FALSE, size |-> 0, offs |-> [f \in DescFields |-> 0]]
CM(found, id, parent) == [found |-> found, id |-> id, parent |-> parent]
\* Device ids: a disk's without vendor ids, a USB device's with both, its
\* hub parent's ending three characters after "VID_", and one ending one
\* character after "PID_".
DiskId == <<"S", "C", "S", "I">>
UsbId == <<"V", "I", "D", "_", "1", "2", "3", "4", "P", "I", "D", "_", "5", "6", "7", "8">>
HubId == <<"H", "V", "I", "D", "_", "9", "9", "9">>
ShortPidId == <<"V", "I", "D", "_", "1", "2", "3", "4", "P", "I", "D", "_", "5">>

NoDevice == [type |-> "none", opens |-> FALSE, media |-> FALSE, desc |-> NoDesc,
             devnum |-> FALSE, cm |-> CM(FALSE, <<>>, <<>>)]
Disk == [type |-> "fixed", opens |-> TRUE, media |-> TRUE, desc |-> Desc(180, 0, 24, 60, 80),
         devnum |-> TRUE, cm |-> CM(TRUE, DiskId, <<"P", "C", "I">>)]
Stick == [type |-> "removable", opens |-> TRUE, media |-> TRUE, desc |-> Desc(200, 40, 60, 90, 120),
          devnum |-> TRUE, cm |-> CM(TRUE, UsbId, HubId)]
\* A card reader with no card: the device opens, the geometry query fails.
EmptyReader == [type |-> "removable", opens |-> TRUE, media |-> FALSE, desc |-> Desc(160, 40, 60, 90, 0),
                devnum |-> FALSE, cm |-> CM(TRUE, UsbId, HubId)]
\* A mapped network share.
Share == [type |-> "remote", opens |-> TRUE, media |-> FALSE, desc |-> NoDesc,
          devnum |-> FALSE, cm |-> CM(FALSE, <<>>, <<>>)]
\* A device whose full descriptor is larger than OutBuf, serial past 1024.
LongDescDisk == [Disk EXCEPT !.desc = Desc(1200, 0, 24, 60, 1100)]

\* A USB device whose id ends one character after "PID_".
ShortIdStick == [Stick EXCEPT !.cm = CM(TRUE, ShortPidId, HubId)]

PassDevices == {Disk, Stick, Share}
ShortIdDevices == {ShortIdStick}
ParseDevices == {Disk}
ReaderDevices == {Disk, EmptyReader}
LongDescDevices == {LongDescDisk}

\* MountedDevices values: "\??\" and up to three further WCHARs among 'A',
\* '#', '\', '{', NUL and U+017B (low byte '{').
Alphabet == {65, Hash, Backslash, Brace, 0, 379}
Prefix == <<92, 63, 63, 92>>
Tails == UNION {[1..n -> Alphabet] : n \in 0..3}
AllValues == [dev \in PassDevices \cup ParseDevices \cup ReaderDevices \cup LongDescDevices |->
                {Prefix \o t : t \in Tails}]
\* Values of the form \??\AB#{ and \??\A#{: paths without a brace first.
PathValues == [dev \in PassDevices \cup ShortIdDevices \cup ReaderDevices \cup LongDescDevices |->
                {Prefix \o <<65, 65, Hash, Brace>>, Prefix \o <<65, Hash, Brace>>}]
\* Every value for the disk, the real instance paths for the other devices.
MixedValues == [dev \in PassDevices \cup ShortIdDevices |->
                 IF dev = Disk THEN {Prefix \o t : t \in Tails} ELSE PathValues[dev]]
=============================================================================
