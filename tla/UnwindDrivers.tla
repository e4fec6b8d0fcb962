---------------------------- MODULE UnwindDrivers ----------------------------
(***************************************************************************)
(* The driver bindings: what Supported, Start and Stop of each UEFI driver *)
(* acquire and release, call by call.  CloseProtocol on a protocol that is *)
(* open does not fail; "Attributes" stands for PCI attributes that differ  *)
(* from the original ones.                                                 *)
(***************************************************************************)
EXTENDS UnwindOps

(* Virtio10Dxe *)
Virtio10BindingSupported == Fn({}, {},
  <<Get("PciIo", "fail"), Try("CloseProtocol"), When("CloseProtocol"), Put("PciIo"), Ok>>
  \o On("CloseProtocol", "PciIo"))

Virtio10BindingStart == Fn({}, {"Device", "PciIo", "Attributes", "VirtIo"},
  <<Get("Device", "fail"), Get("PciIo", "FreeDevice"), Try("ClosePciIo"),
    Try("ClosePciIo"),     \* ParseCapabilities
    Try("ClosePciIo"), Get("Attributes", "ClosePciIo"), Get("VirtIo", "RestorePciAttributes"), Ok>>
  \o On("RestorePciAttributes", "Attributes") \o On("ClosePciIo", "PciIo") \o On("FreeDevice", "Device"))

Virtio10BindingStop == Fn({"Device", "PciIo", "Attributes", "VirtIo"}, {},
  <<Try("fail"), Try("fail"), Put("VirtIo"), Put("Attributes"), Put("PciIo"), Put("Device"), Ok>>)

(* VirtioPciDeviceDxe *)
VirtioPciDeviceBindingSupported == Fn({}, {},
  <<Get("PciIo", "fail"), Try("Close"), When("Close"), Put("PciIo"), Ok>> \o On("Close", "PciIo"))

VirtioPciDeviceBindingStart == Fn({}, {"Device", "PciIo", "Attributes", "VirtIo"},
  <<Get("Device", "fail"), Get("PciIo", "FreeVirtioPci"), Try("ClosePciIo"),
    Get("Attributes", "ClosePciIo"), Try("RestorePciAttributes"),
    Get("VirtIo", "UninitDev"), Ok, At("UninitDev")>>
  \o On("RestorePciAttributes", "Attributes") \o On("ClosePciIo", "PciIo") \o On("FreeVirtioPci", "Device"))

VirtioPciDeviceBindingStop == Fn({"Device", "PciIo", "Attributes", "VirtIo"}, {},
  <<Try("fail"), Try("fail"), Put("VirtIo"), Put("Attributes"), Put("PciIo"), Put("Device"), Ok>>)

(* SioBusDxe: the children are created by Start and must go before it stops *)
SioBusDriverBindingSupported == Fn({}, {},
  <<Get("PciIo", "fail"), Try("Close"), When("Close"), Put("PciIo"), Ok>> \o On("Close", "PciIo"))

SioBusOwned == {"PciIo", "DevicePath", "Attributes", "Private", "CallerId", "Children"}

\* Done: undoes what the flags and pointers say was done.
SioBusStartDone ==
  <<At("Done"), PutAll("Attributes"), Put("DevicePath"), Put("PciIo"),
    PutAll("CallerId"), PutAll("Private"), Err>>

SioBusDriverBindingStart == Fn({}, SioBusOwned,
  <<Get("PciIo", "fail"), Get("DevicePath", "ClosePciIo"), Try("Done"), When("Done"), Try("Done"),
    Get("Attributes", "Done"), Get("Private", "Done"), Get("CallerId", "Done"),
    Get("Children", "Done"), Ok>>
  \o SioBusStartDone \o On("ClosePciIo", "PciIo"))

SioCreateChildDevice == Fn(SioBusOwned, SioBusOwned \cup {"SioDevice", "ChildPath", "Sio", "ChildPciIo"},
  <<Get("SioDevice", "fail"), Get("ChildPath", "Done"), Get("Sio", "Done"),
    Get("ChildPciIo", "Uninstall"), Ok>>
  \o On("Uninstall", "Sio") \o <<At("Done"), PutAll("ChildPath"), Put("SioDevice")>>)

\* The link to the parent is closed first and opened again when the child stays; neither
\* status is looked at, so a failing re-open leaves the child without its link.
SioBusStopChild == Partly({"ChildPciIo"}, SioBusOwned \cup {"SioDevice", "ChildPath", "Sio", "ChildPciIo"}, SioBusOwned,
  <<Try("fail"), PutAll("ChildPciIo"), Try("Reopen"), Put("Sio"), Put("ChildPath"), Put("SioDevice"), Ok,
    At("Reopen"), Get("ChildPciIo", "fail"), Err>>)

SioBusStopController == Fn(SioBusOwned, {},
  <<Try("fail"), Try("fail"), Put("Children"), Put("Attributes"), Put("CallerId"), Put("Private"),
    Put("DevicePath"), Put("PciIo"), Ok>>)

(* SataControllerDxe *)
SataOwned == {"PciIo", "Attributes", "SataPrivateData", "DisqualifiedModes", "IdentifyData",
              "IdentifyValid", "IdeInit"}

SataStartLabels ==
  On("FreeIdentifyData", "IdentifyData")
  \o On("FreeDisqualifiedModes", "DisqualifiedModes") \o On("FreeSataPrivateData", "SataPrivateData")
  \o On("RestorePciAttributes", "Attributes") \o On("ClosePciIo", "PciIo")


SataControllerStart == Fn({}, SataOwned,
  <<Get("PciIo", "fail"), Try("ClosePciIo"), Get("Attributes", "ClosePciIo"),
    Get("SataPrivateData", "RestorePciAttributes"), Try("FreeSataPrivateData"),
    Get("DisqualifiedModes", "FreeSataPrivateData"), Get("IdentifyData", "FreeDisqualifiedModes"),
    Get("IdentifyValid", "FreeIdentifyData"), Get("IdeInit", "FreeIdentifyValid"), Ok>>
  \o On("FreeIdentifyValid", "IdentifyValid") \o SataStartLabels)

SataControllerStop == Fn(SataOwned, {},
  <<Try("fail"), Try("fail"), Put("IdeInit"), PutAll("DisqualifiedModes"), PutAll("IdentifyData"),
    PutAll("IdentifyValid"), Put("SataPrivateData"), Put("Attributes"), Put("PciIo"), Ok>>)

(* QemuVideoDxe *)
QemuVideoControllerDriverSupported == Fn({}, {},
  <<Get("PciIo", "fail"), Try("Done"), When("Done"), When("Done"), Put("PciIo"), Ok>>
  \o On("Done", "PciIo"))

VideoOwned == {"Private", "PciIo", "Attributes", "GopDevicePath", "DevicePath", "ModeData",
               "Mode", "Gop", "ChildPciIo"}

QemuVideoStartController ==
  <<Get("Tpl", "fail"), Get("Private", "RestoreTpl"), Get("PciIo", "FreePrivate"), Try("ClosePciIo"),
    When("ClosePciIo"), Try("ClosePciIo"), Try("ClosePciIo"), When("ClosePciIo"),
    When("ClosePciIo")>>                     \* the policy has another size

QemuVideoEnable ==
  <<When("PolicyOff"),
    Get("Attributes", "ClosePciIo"), Get("MmioDesc", "Bochs"), Put("MmioDesc"),
    At("Bochs"), When("RestoreAttributes")>>

\* The policy turns the port off: the device stays disabled, whatever Start returns.
QemuVideoPolicyOff == <<At("PolicyOff"), More("PortDisabled", "ClosePciIo"), Goto("ClosePciIo")>>

QemuVideoStartLabels ==
  QemuVideoPolicyOff \o On("UninstallGop", "Gop") \o On("DestructQemuVideoGraphics", "Mode") \o On("FreeModeData", "ModeData")
  \o On("UninstallGopDevicePath", "DevicePath") \o On("FreeGopDevicePath", "GopDevicePath")
  \o On("RestoreAttributes", "Attributes") \o On("ClosePciIo", "PciIo") \o On("FreePrivate", "Private")
  \o On("RestoreTpl", "Tpl")

QemuVideoControllerDriverStart == Fn({}, VideoOwned,
  QemuVideoStartController \o QemuVideoEnable
  \o <<Try("RestoreAttributes"), Get("GopDevicePath", "RestoreAttributes"),
       Get("DevicePath", "FreeGopDevicePath"), Get("ModeData", "UninstallGopDevicePath"),
       Get("Mode", "FreeModeData"), Get("Gop", "DestructQemuVideoGraphics"),
       Get("ChildPciIo", "UninstallGop"), Put("Tpl"), Ok>>
  \o QemuVideoStartLabels)

(***************************************************************************)
(* Stop with the child: the destructor runs before the protocol is         *)
(* uninstalled, so when that is refused the protocol stays without Mode.   *)
(***************************************************************************)
QemuVideoStopChild == Partly({"Mode"}, VideoOwned, {"PciIo"},
  <<Try("fail"), PutAll("Mode"), Try("fail"), Put("Gop"), Put("Attributes"), Put("ChildPciIo"),
    Put("ModeData"), Put("DevicePath"), Put("GopDevicePath"), Put("Private"), Ok>>)

QemuVideoStopController == Fn({"PciIo"}, {}, <<Put("PciIo"), Ok>>)

(* AcpiPlatformDxe *)
\* Not getting there is not an error of EnablePciDecoding: it has no status.
EnablePciDecoding == Fn({}, {"OriginalAttributes", "Decoding"},
  <<When("fail"), Get("Handles", "fail"), Get("OriginalAttributes", "FreeHandles"),
    At("Next"), Try("RestoreAttributes"), Try("RestoreAttributes"),
    More("Decoding", "RestoreAttributes"), Loop("Next"), Put("Handles"), Ok,
    At("RestoreAttributes"), PutAll("Decoding"), Put("OriginalAttributes")>>
  \o On("FreeHandles", "Handles"))

RestorePciDecoding == Fn({"OriginalAttributes", "Decoding"}, {},
  <<PutAll("Decoding"), Put("OriginalAttributes"), Ok>>)

DriverTable ==
  [virtio10 |-> [supported |-> Virtio10BindingSupported, start |-> Virtio10BindingStart,
                 stop |-> Virtio10BindingStop],
   virtiopci |-> [supported |-> VirtioPciDeviceBindingSupported, start |-> VirtioPciDeviceBindingStart,
                  stop |-> VirtioPciDeviceBindingStop],
   sio |-> [supported |-> SioBusDriverBindingSupported, start |-> SioBusDriverBindingStart,
            child |-> SioCreateChildDevice, stopchild |-> SioBusStopChild, stop |-> SioBusStopController],
   sata |-> [start |-> SataControllerStart, stop |-> SataControllerStop],
   video |-> [supported |-> QemuVideoControllerDriverSupported, start |-> QemuVideoControllerDriverStart,
              stopchild |-> QemuVideoStopChild, stop |-> QemuVideoStopController],
   decoding |-> [enable |-> EnablePciDecoding, restore |-> RestorePciDecoding]]
=============================================================================
