\* A SATA and an NVMe drive and a stick that is excluded; one slot for both.
SPECIFICATION Spec
CONSTANTS
  sata = sata
  nvme = nvme
  usb = usb
  Disks = {sata, nvme, usb}
  Nvme = {nvme}
  Ignored = {usb}
  Rated = {sata, nvme}
  Slots = 1
INVARIANTS TypeOK MergedByPriority
PROPERTY CollectionEnds
