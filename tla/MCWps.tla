------------------------------- MODULE MCWps -------------------------------
(***************************************************************************)
(* Wi-Fi Protected Setup: a registrar and its enrollees, the messages they  *)
(* exchange and the numbers their Diffie-Hellman keys are made of.  The     *)
(* three are checked side by side: `method` says which one a behaviour is   *)
(* about.  The registrar stays in its initial state in a behaviour about    *)
(* another, whose variables are Off in one about the registrar.             *)
(***************************************************************************)
EXTENDS WpsRegistration

VARIABLES
  method,
  cfg, msgReg, sess,                  \* WpsMessages
  fast, junk, nums, val, ret, ops     \* BigNum

Off == "off"
msgVars == <<cfg, msgReg, sess>>
bnVars  == <<fast, junk, nums, val, ret, ops>>
wpsVars == <<method, vars, msgVars, bnVars>>

(* Two enrollees whose PINs share the first half. *)
MCPinOf == [e \in Enrollees |-> IF e = "e1" THEN <<1, 1>> ELSE <<1, 2>>]

-----------------------------------------------------------------------------
(* Messages: both builds, station and access point enrollees, and networks from   *)
(* open to WPA2, over the methods a device can be configured with.           *)
Security == {<<{"open"}, {"none"}>>, <<{"open"}, {"wep"}>>, <<{"shared"}, {"wep"}>>,
             <<{"wpapsk"}, {"tkip"}>>, <<{"wpa2psk"}, {"aes"}>>, <<{"wpapsk", "wpa2psk"}, {"tkip", "aes"}>>}

Methods == {{"display", "virt_display", "keypad"},
            {"display", "phy_display", "pushbutton", "virt_pb"}}
EnrolleeMethods == {{"display", "phy_display", "pushbutton", "virt_pb"}, {"keypad"}}

(* What a device is differs from what its network is in the attributes it     *)
(* fills: every device with the networks of WPA2, every network with one pair *)
(* of devices.  An open network has no key, and WEP no PSK.                   *)
WpsConfig(strict, a, m, me, t, s, psk, k) ==
    [strict |-> strict, ap |-> a, methods |-> m, methods_e |-> me, text |-> t, auth |-> s[1], encr |-> s[2],
     wps_state |-> IF t = 0 THEN 1 ELSE 2, auto_conf |-> TRUE, psk_set |-> psk, key |-> k, ssid |-> 6,
     dualband |-> t = 0, rf |-> IF t = 0 THEN 3 ELSE 1, err |-> IF psk THEN 18 ELSE 0,
     dev_pw_id |-> IF psk THEN 4 ELSE 0]

KeysOf(s) == CASE s[2] = {"none"} -> {<<FALSE, 0>>}
               [] s[2] = {"wep"}  -> {<<FALSE, 13>>}
               [] OTHER           -> BOOLEAN \X {0, 13}

WpsConfigs ==
    {WpsConfig(strict, a, m, me, t, <<{"wpa2psk"}, {"aes"}>>, psk, 13) :
        strict \in BOOLEAN, a \in BOOLEAN, m \in Methods, me \in EnrolleeMethods,
        t \in {0, 5}, psk \in BOOLEAN}
    \cup
    UNION {{WpsConfig(strict, a, {"display", "virt_display", "keypad"}, {"keypad"}, t, s, k[1], k[2]) :
              strict \in BOOLEAN, a \in BOOLEAN, t \in {0, 5}, k \in KeysOf(s)} : s \in Security}

Msg == INSTANCE WpsMessages WITH Configs <- WpsConfigs, reg <- msgReg

-----------------------------------------------------------------------------
(* Big numbers: digits of 3 bits, words of 8, bytes of 2; up to four digits. *)
ToBytes(n) == LET k == CHOOSE k \in 0 .. 8 : 4 ^ k > n /\ (k = 0 \/ 4 ^ (k - 1) <= n)
              IN  [i \in 1 .. k |-> (n \div 4 ^ (k - i)) % 4]

Key(p, q, e) ==
  LET inv(a, m) == CHOOSE x \in 0 .. m - 1 : (a * x) % m = 1
  IN  [n |-> ToBytes(p * q), e |-> ToBytes(e), p |-> ToBytes(p), q |-> ToBytes(q),
       dmp1 |-> ToBytes(inv(e, p - 1)), dmq1 |-> ToBytes(inv(e, q - 1)), iqmp |-> ToBytes(inv(q, p))]

Numbers == {ToBytes(n) : n \in {0, 63, 512}}
ModularNumbers == {ToBytes(n) : n \in {0, 64, 511}}
Keys == {Key(11, 23, 3), Key(23, 11, 7)}

Bn == INSTANCE BigNum WITH DIGIT_BIT <- 3, WORD_BIT <- 8, BYTE_BIT <- 2, MP_PREC <- 4,
        Bytes <- Numbers, Exponents <- ModularNumbers, RsaKeys <- Keys, MaxOps <- 1, reg <- nums

-----------------------------------------------------------------------------
MsgOff == cfg = Off /\ msgReg = Off /\ sess = Off
BnOff  == fast = Off /\ junk = Off /\ nums = Off /\ val = Off /\ ret = Off /\ ops = Off

(* A context with a network key is what the first registration ends in: the  *)
(* behaviours start from one without.                                        *)
WpsInit ==
  /\ Init /\ ap.network_key = NoKey
  /\ \/ method = "registration" /\ MsgOff /\ BnOff
     \/ method = "messages" /\ Msg!Init /\ BnOff
     \/ method = "numbers" /\ Bn!Init /\ MsgOff
  /\ method # "registration" => ~ap.configured

WpsNext ==
  /\ UNCHANGED method
  /\ \/ method = "registration" /\ Next /\ UNCHANGED <<msgVars, bnVars>>
     \/ method = "messages" /\ Msg!Next /\ UNCHANGED <<vars, bnVars>>
     \/ method = "numbers" /\ Bn!Next /\ UNCHANGED <<vars, msgVars>>

WpsSpec == WpsInit /\ [][WpsNext]_wpsVars
-----------------------------------------------------------------------------
(* Whatever the two devices' configuration and the registrar's state, every  *)
(* message one side builds is one the other side's parser reads and its      *)
(* validator accepts (wps_common.c, wps_validate.c), and a credential the    *)
(* enrollee saves is the one the registrar built (wps_process_cred).         *)
WpsMessagesAgree == method = "messages" => Msg!BuiltIsAccepted /\ Msg!CredentialDelivered

(* Every operation of libtommath.h and bignum.c returns what integer          *)
(* arithmetic does, in canonical form, whichever operand it overwrites.      *)
BigNumArithmetic == method = "numbers" => Bn!Arithmetic
=============================================================================
