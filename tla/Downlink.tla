------------------------------ MODULE Downlink ------------------------------
(***************************************************************************)
(* What a message on a subscribed topic does to the output: deliver_publish*)
(* of the MQTT client hands the bytes of its input buffer, part by part, to*)
(* url_data of main/blynk.c, which reads a number from them with atoi and  *)
(* sets GPIO 2.  The bytes carry no terminating NUL, the buffer keeps what *)
(* earlier messages left, and only the first part comes with its topic.    *)
(***************************************************************************)
EXTENDS Naturals, Sequences

CONSTANT MaxParts  \* bound: parts in which a message may come

\* The bytes that matter: the digit 0, another digit (1), no digit (2)
Byte == {0, 1, 2}
Payload == {<<0>>, <<1>>, <<1, 1>>}
None == 2

VARIABLES
  buffer,  \* the two bytes of in_buffer where the payload of a vw message begins
  left,    \* parts of the message that are still to be read
  output,  \* level of GPIO 2
  filled,  \* history: a message has written both bytes of buffer
  cmd      \* history: what the last whole vw message said when buffer was filled by
           \* messages; None after a part of one

vars == <<buffer, left, output, filled, cmd>>

\* in_buffer comes from malloc
Init == buffer \in [1..2 -> Byte] /\ left = 0 /\ output = 0 /\ cmd = None /\ filled = FALSE

\* atoi: of <<0, 0>> what the next bytes say; gpio_set_level: not 0 is high
Levels(b) == IF b[1] # 0 THEN {b[1] % 2} ELSE IF b[2] = 0 THEN {0, 1} ELSE {b[2] % 2}

\* a whole message on downlink/ds/vw
Button(p) ==
  /\ left = 0
  /\ buffer' = [i \in 1..2 |-> IF i <= Len(p) THEN p[i] ELSE buffer[i]]
  /\ output' \in Levels(buffer')
  /\ filled' = (filled \/ Len(p) = 2) /\ cmd' = IF filled' THEN p[1] ELSE None
  /\ UNCHANGED left

\* the first part of a long message on downlink/ds/vw
ButtonPart(n) ==
  /\ left = 0 /\ left' = n - 1
  /\ buffer' \in [1..2 -> Byte] /\ output' \in Levels(buffer') /\ cmd' = None /\ filled' = TRUE

\* downlink/ds/VP_ADC: the longer topic reaches over these bytes
Adc(n) ==
  /\ left = 0 /\ left' = n - 1
  /\ buffer' = <<2, 2>> /\ filled' = TRUE /\ UNCHANGED <<output, cmd>>

\* A further part comes without a topic: strncmp of 0 characters matches, whatever
\* the topic was, and atoi reads at the beginning of the buffer.
NextPart ==
  /\ left > 0 /\ left' = left - 1
  /\ buffer' \in [1..2 -> Byte] /\ output' \in {0, 1} /\ cmd' = None /\ filled' = TRUE

\* the connection is lost before the next part
Lost == left > 0 /\ left' = 0 /\ UNCHANGED <<buffer, output, cmd, filled>>

\* A read error is -1 in a size_t: it is handed over like a part and read again, until
\* msg_read_len has wrapped below 0.
ReadError ==
  /\ left > 0 /\ left' \in {left, 0}
  /\ output' \in {0, 1} /\ cmd' = None /\ UNCHANGED <<buffer, filled>>

Next ==
  \/ \E p \in Payload : Button(p)
  \/ \E n \in 1..MaxParts : Adc(n) \/ (n > 1 /\ ButtonPart(n))
  \/ NextPart \/ Lost \/ ReadError

Spec == Init /\ [][Next]_vars

(* The output is what the last whole message on downlink/ds/vw says, once  *)
(* messages have replaced what malloc left in the buffer.                  *)
CommandObeyed == cmd \in {0, 1} => output = cmd
=============================================================================
