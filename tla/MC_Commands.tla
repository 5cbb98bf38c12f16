---------------------------- MODULE MC_Commands -----------------------------
(***************************************************************************)
(* A node at address 0.5 with room for two rules, and payloads of at most  *)
(* sixteen bytes behind headers of two, so that a rule of twelve bytes is   *)
(* too long for a request and one of sixteen for any reply.                 *)
(***************************************************************************)
EXTENDS Commands, TLC

MyAddress == <<0, 5>>

BootConf == "MY_NET" :> <<1>> @@ "MY_ADDRESS" :> MyAddress @@ "RSSI_MIN" :> <<0>>
            @@ "RESET_PERIOD" :> <<88, 2>> @@ "BEACON_PERIOD" :> <<5, 0>>

WrittenValues ==
  "MY_NET" :> {<<1>>} @@ "MY_ADDRESS" :> {<<0, 5>>} @@ "RSSI_MIN" :> {<<60>>}
  @@ "RESET_PERIOD" :> {} @@ "BEACON_PERIOD" :> {}

NextHops == {MyAddress, <<5, 0>>}

(* One window each; DROP, FORWARD_U to 0.9, and a FUNCTION with six bytes.    *)
(* The second replaces the first.                                            *)
Rules == {
  <<5, 18, 0, 2, 0, 7, 1, 3, 100, 255>>,
  <<5, 18, 0, 2, 0, 7, 3, 1, 0, 9, 50, 255>>,
  <<5, 77, 0, 6, 0, 2, 7, 5, 7, 7, 7, 7, 7, 7, 30, 255>>}
=============================================================================
