------------------------------ MODULE MCChirc ------------------------------
(* Instances of Chirc for TLC. *)
EXTENDS Chirc, TLC

OneVeteran == {"amy"}
TwoVeterans == {"amy", "rory"}
OneNick == ("amy" :> "a")
TwoNicks == ("amy" :> "a") @@ ("rory" :> "r")
============================================================================
