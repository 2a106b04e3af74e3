-------------------------- MODULE MCDiskSelection ---------------------------
(* Three disks on three numbers.  The two that are not the system disk      *)
(* report identities that are equal, differ in one identifier, lack one, or *)
(* come through a USB bridge.                                               *)
EXTENDS DiskSelection, TLC

CONSTANTS n0, n1, n2

Id(s, p, u, b, z) == [serial |-> s, pnp |-> p, uid |-> u, bus |-> b, shape |-> z]
MCDisks == {"sys", "vault", "spare"}
MCNumbers == {n0, n1, n2}
Symm == Permutations(MCNumbers)
MCSystemIdentity == Id("S", "P0", "U0", "nvme", 4)
MCIdentities ==
  {Id("A", "P1", "", "nvme", 4), Id("A", "P1", "U1", "nvme", 4),
   Id("B", "P1", "U1", "nvme", 4), Id("A", "", "U1", "usb", 4),
   Id("A", "P1", "U1", "usb", 4), Id("", "P1", "U1", "nvme", 4),
   Id("A", "P2", "U2", "nvme", 3), Id("B", "P2", "U2", "nvme", 5)}
Part(r, f, z) == [role |-> r, fs |-> f, size |-> z]
MCSystemLayout ==
  <<Part("basic_data", "ntfs", 300), Part("efi", "fat32", 100), Part("windows", "ntfs", 302)>>
MCLayouts ==
  {<<Part("efi", "fat32", 100), Part("basic_data", "ntfs", 300), Part("basic_data", "ntfs", 302)>>,
   <<Part("efi", "", 101), Part("basic_data", "ntfs", 303), Part("windows", "", 300)>>,
   <<Part("efi", "fat32", 100), Part("basic_data", "ntfs", 0), Part("windows", "ntfs", 300)>>,
   <<Part("basic_data", "ntfs", 300), Part("windows", "ntfs", 302)>>,
   <<Part("efi", "fat32", 100), Part("basic_data", "ntfs", 302), Part("basic_data", "fat32", 302)>>}
=============================================================================
