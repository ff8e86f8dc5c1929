------------------------------- MODULE RtcMC -------------------------------
(***************************************************************************)
(* Model values for Rtc: rtc_write gets supported rates from three arms   *)
(* of its chain (2, 128, 256), the two it never reaches (512), and the    *)
(* unsupported values tests.c tries (17, -15).                            *)
(***************************************************************************)
EXTENDS Rtc

MC_Freqs == {2, 128, 256, 512, 17, -15}
=============================================================================
