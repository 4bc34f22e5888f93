----------------------------- MODULE MCPacketWait -----------------------------
(***************************************************************************)
(* Instances of PacketWait for TLC: an image with picture and sound.       *)
(***************************************************************************)
EXTENDS PacketWait

CONSTANTS video, audio

\* CMedia::stop() and aviImage::seek_to_position() take them in this order.
MCNotifyOrder == <<audio, video>>
MCSeekOrder == <<video, audio>>
=============================================================================
