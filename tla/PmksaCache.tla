----------------------------- MODULE PmksaCache -----------------------------
(***************************************************************************)
(* The station's cache of PMK security associations (rsn_supp/pmksa_cache.c)*)
(* and the fields of struct wpa_sm it shares with the supplicant: a record  *)
(*   [cache, count, cur, pmk, timer, deauth]                                *)
(* with the entries in the order of their list, their number, the current   *)
(* entry (<<>> is NULL), the PMK in use (<<>> is all zeros), the deadline   *)
(* of the expiry timer (0: stopped) and a deauthentication asked of the     *)
(* driver.  An entry is [aa, pmk, pmkid, exp]; it stands for its address    *)
(* too: no two entries of a cache are equal.  network_ctx is always NULL,   *)
(* the key management always SAE, and nothing makes opportunistic entries.  *)
(***************************************************************************)
EXTENDS Integers, Sequences, SequencesExt

CONSTANTS
  MaxEntries,   \* pmksa_cache_max_entries
  Lifetime      \* dot11RSNAConfigPMKLifetime

EmptySm == [cache |-> <<>>, count |-> 0, cur |-> <<>>, pmk |-> <<>>, timer |-> 0, deauth |-> FALSE]

Without(s, e) == SelectSeq(s, LAMBDA x : x # e)

\* Mutant: the entry that goes stays the current one.
wpa_sm_pmksa_free_cb_Dangling(sm, e, reason) ==
  LET deauth == (reason = "expire" /\ sm.pmk = e.pmk) \/ (sm.cur = <<e>> /\ reason # "replace")
  IN  [sm EXCEPT !.pmk = IF deauth THEN <<>> ELSE @, !.deauth = @ \/ deauth]

\* reason is "replace", "free" or "expire".
wpa_sm_pmksa_free_cb(sm, e, reason) ==
  LET current == sm.cur = <<e>>
      expired == reason = "expire" /\ sm.pmk = e.pmk
      deauth == expired \/ (current /\ reason # "replace")
  IN  [sm EXCEPT !.cur = IF current \/ expired THEN <<>> ELSE @,
                 !.pmk = IF deauth THEN <<>> ELSE @,
                 !.deauth = @ \/ deauth]

Unlink(sm, e) == [sm EXCEPT !.cache = Without(@, e)]

pmksa_cache_free_entry(sm, e, reason) == wpa_sm_pmksa_free_cb([sm EXCEPT !.count = @ - 1], e, reason)

RemoveEntry(sm, e, reason) == pmksa_cache_free_entry(Unlink(sm, e), e, reason)

pmksa_cache_set_expiration(sm, now) ==
  [sm EXCEPT !.timer = IF sm.cache = <<>> THEN 0
                       ELSE now + 1 + (IF Head(sm.cache).exp > now THEN Head(sm.cache).exp - now ELSE 0)]

\* The timer's callback, which takes out the first entry while it is this old: the
\* entries are in the order of their expiration.
pmksa_cache_expire(sm, now) == sm.cache # <<>> /\ Head(sm.cache).exp <= now

\* One turn of pmksa_cache_flush's loop, and the loop: Of(s) is the PMK the caller's
\* pointer shows in the course of it.
FlushEntry(sm, e, pmk) == IF e.pmk = pmk THEN RemoveEntry(sm, e, "free") ELSE sm
pmksa_cache_flush(sm, Of(_)) == FoldLeft(LAMBDA s, e : FlushEntry(s, e, Of(s)), sm, sm.cache)

pmksa_cache_get(sm, aa, pmkid) ==
  LET found == SelectSeq(sm.cache, LAMBDA e : e.aa = aa /\ pmkid \in {0, e.pmkid})
  IN  IF found = <<>> THEN <<>> ELSE <<Head(found)>>

\* The oldest entry makes room, or the next one when it is the current entry.
MakeRoom(sm) ==
  IF sm.count < MaxEntries \/ sm.cache = <<>> THEN sm
  ELSE IF <<Head(sm.cache)>> # sm.cur THEN RemoveEntry(sm, Head(sm.cache), "free")
  ELSE IF Len(sm.cache) = 1 THEN sm ELSE RemoveEntry(sm, sm.cache[2], "free")

\* All entries live equally long, so the new one goes to the end.
Insert(sm, e, now) ==
  LET s == [sm EXCEPT !.cache = Append(@, e), !.count = @ + 1]
  IN  IF sm.cache = <<>> THEN pmksa_cache_set_expiration(s, now) ELSE s

pmksa_cache_add(sm, aa, pmk, pmkid, now) ==
  LET old == pmksa_cache_get(sm, aa, 0)
      flushed == pmksa_cache_flush(Unlink(sm, old[1]), LAMBDA s : old[1].pmk)
      replaced == pmksa_cache_free_entry(flushed, old[1], "replace")
      new == [aa |-> aa, pmk |-> pmk, pmkid |-> pmkid, exp |-> now + Lifetime]
  IN  IF old = <<>> THEN Insert(MakeRoom(sm), new, now)
      ELSE IF old[1].pmk = pmk /\ old[1].pmkid = pmkid THEN sm
      ELSE Insert(MakeRoom(replaced), new, now)

wpa_sm_set_pmk_from_pmksa(sm) == [sm EXCEPT !.pmk = IF sm.cur = <<>> THEN <<>> ELSE sm.cur[1].pmk]

pmksa_cache_set_current(sm, aa) == [sm EXCEPT !.cur = pmksa_cache_get(sm, aa, 0)]

\* The pointer shows the PMK in use, which freeing the current entry clears.
wpa_sta_clear_curr_pmksa(sm) == [pmksa_cache_flush(sm, LAMBDA s : s.pmk) EXCEPT !.cur = <<>>]

\* The PMK for message 1 of the handshake, which names pmkid: an entry of that name.
wpa_supplicant_get_pmk(sm, aa, pmkid) ==
  LET s == IF sm.cur = <<>> THEN [sm EXCEPT !.cur = pmksa_cache_get(sm, aa, pmkid)] ELSE sm
  IN  IF s.cur # <<>> /\ s.cur[1].pmkid = pmkid THEN wpa_sm_set_pmk_from_pmksa(s) ELSE s
=============================================================================
