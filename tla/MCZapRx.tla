------------------------------ MODULE MCZapRx ------------------------------
(* Three packet buffers (one after the resize to 24): the task runs out    *)
(* of free buffers while the reader and the FPGA hold them.                *)
EXTENDS ZapRx

MCDescs == {}
MCPacketSizes == {24}
MCAllIoctls == {"on", "off", "size"}

(* The hypothesis of the theorems on this module that is about sizes.      *)
ASSUME MCSizes == SizesPositive
=============================================================================
