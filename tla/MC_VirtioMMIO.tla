---------------------------- MODULE MC_VirtioMMIO ----------------------------
(* VirtioMMIO for the block device of this host:           *)
(* virtio_block_init gives config_space_size 16 and device_features        *)
(* VIRTIO_F_VERSION_1 | VIRTIO_BLK_F_SEG_MAX (bit 2).                     *)
EXTENDS VirtioMMIO

BlkFeatures == {2, VERSION_1}

(* Bits a driver might write: SEG_MAX, VERSION_1 (bit 0 of the high word) *)
(* and bit 0 of the low word, which no device here offers.                *)
GateWords == {{}, {0}, {2}}
GateStatus == {{}, {"ACK"}, {"ACK", "FEATURES_OK"}}
GateQueueNums == {0, 3, 4, 32}

CfgOffsets == {0, 12, 13, 14, 15, 16, 3839}
====
