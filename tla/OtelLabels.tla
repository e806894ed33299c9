----------------------------- MODULE OtelLabels -----------------------------
(***************************************************************************)
(* Label lists of the OpenTelemetry instruments (pkg/metrics/              *)
(* opentelemetry.go): otelLabelNamesValues.With, ToLabels, and the series  *)
(* key strings.Join(attributes, "") of gaugeCollector.add.                 *)
(*                                                                         *)
(* An otelLabelNamesValues is a Go slice: a backing array, a length and a  *)
(* capacity.  With returns append(lvs, labelValues...), and Go's append    *)
(* writes into the receiver's backing array when its capacity has room,    *)
(* so two values derived from one base can share storage.  The model keeps *)
(* the backing arrays (`arrays`) and every slice derived so far (`slices`, *)
(* the nil slice of a fresh instrument first), and checks each against the *)
(* list its caller asked for (`intended`).  Counter Add and histogram     *)
(* Observe hand ToLabels of their list to the SDK (`recorded`), to be      *)
(* compared with what the callers' With calls asked for (`owed`).          *)
(***************************************************************************)
EXTENDS Naturals, Sequences, SequencesExt

CONSTANTS
    Values,        \* label names and values passed to With
    ArgLists,      \* argument lists of With calls (sequences over Values)
    MaxWith,       \* bound on With calls
    MaxDepth,      \* bound on With calls chained on one instrument
    Chars,         \* characters of label values (series keys)
    StrLens,       \* lengths of label values (series keys)
    MaxAdds,       \* bound on gauge Add calls (series keys)
    MaxRecords     \* bound on counter Add and histogram Observe calls

VARIABLES
    arrays,        \* arrays[a]: backing array a, a sequence of length its capacity
    slices,        \* slices[h]: [arr, len, cap] of the h-th label list
    depth,         \* depth[h]: number of With calls that produced slices[h]
    intended,      \* intended[h]: the labels the calls that made slices[h] passed
    gauge,         \* values[name] of gaugeCollector: key -> [attributes, value]
    added,         \* added[lvs]: Add(+1) calls made with label list lvs
    recorded,      \* recorded[<<kind, attrs>>]: SDK calls of an instrument kind with attrs
    owed           \* owed[<<kind, attrs>>]: the same, for the attributes callers asked for

vars == <<arrays, slices, depth, intended, gauge, added, recorded, owed>>

\* The nil slice: the labelNamesValues field of a fresh instrument.
NilSlice == [arr |-> 0, len |-> 0, cap |-> 0]

\* The strings a slice holds.
Contents(s) == [i \in 1..s.len |-> arrays[s.arr][i]]

\* Capacity chosen by Go's growslice for a string slice of capacity old
\* that must hold need elements (old < 256, and a size class exists for
\* every multiple of 16 bytes up to 256, so no rounding below 16 slots).
GrowCap(old, need) == IF need > 2 * old THEN need ELSE 2 * old

\* append(s, xs...) on the backing arrays arrs: the resulting slice and
\* backing arrays.
AppendSlice(arrs, s, xs) ==
    LET need == s.len + Len(xs)
        \* the element at index i after the append, given the old one
        At(old, i) == IF i <= s.len THEN old ELSE xs[i - s.len]
    IN IF need <= s.cap
       THEN \* in place: slots len+1..need are written, the rest untouched
            LET arr == arrs[s.arr] IN
            [slice  |-> [s EXCEPT !.len = need],
             arrays |-> [arrs EXCEPT ![s.arr] =
                           [i \in 1..s.cap |-> IF i <= need THEN At(arr[i], i) ELSE arr[i]]]]
       ELSE \* growslice: a zeroed array of the new capacity, len elements copied
            LET c == GrowCap(s.cap, need)
                src == IF s.arr = 0 THEN <<>> ELSE arrs[s.arr]
            IN [slice  |-> [arr |-> Len(arrs) + 1, len |-> need, cap |-> c],
                arrays |-> Append(arrs, [i \in 1..c |->
                              IF i <= s.len THEN src[i]
                              ELSE IF i <= need THEN xs[i - s.len] ELSE ""])]

\* What With's caller is owed: the base labels, then the new ones padded
\* to pairs with "unknown".
Padded(args) == IF Len(args) % 2 # 0 THEN Append(args, "unknown") ELSE args

Init ==
    /\ arrays = <<>>
    /\ slices = <<NilSlice>>
    /\ depth = <<0>>
    /\ intended = <<<<>>>>
    /\ gauge = <<>>
    /\ added = <<>>
    /\ recorded = <<>>
    /\ owed = <<>>

\* Record the result of a With call on slices[h].
Derive(h, args, r) ==
    /\ arrays' = r.arrays
    /\ slices' = Append(slices, r.slice)
    /\ depth' = Append(depth, depth[h] + 1)
    /\ intended' = Append(intended, intended[h] \o Padded(args))
    /\ UNCHANGED <<gauge, added, recorded, owed>>

\* x.With(labelValues...) for the counter, gauge and histogram (each
\* calls otelLabelNamesValues.With on its own labelNamesValues): pad an odd
\* list, then append it to the receiver.
With(h, args) == Derive(h, args, AppendSlice(arrays, slices[h], Padded(args)))

\* ToLabels: consecutive (name, value) pairs; a trailing odd element is
\* dropped (len(lvs)/2 pairs).
ToLabels(lvs) == [i \in 1..(Len(lvs) \div 2) |-> <<lvs[2 * i - 1], lvs[2 * i]>>]

\* gaugeCollector.add keys a series by strings.Join(attributes, ""): the
\* label strings (sequences of characters) concatenated.
SeriesKey(lvs) == FlattenSeq(lvs)

\* Label values of the given lengths over Chars, and the label lists of a
\* two-label gauge (its label names fixed, abstracted to "a" and "b").
Strings == UNION {[1..n -> Chars] : n \in StrLens}
GaugeLabelLists == {<<<<"a">>, v1, <<"b">>, v2>> : v1, v2 \in Strings}

\* gauge.With(lvs).Add(1) once values[name] exists: under the series key,
\* a new series gets the delta, an existing one keeps the sum and takes
\* the latest attributes.
AddSeries(lvs) ==
    LET k == SeriesKey(lvs) IN
    /\ gauge' = IF k \in DOMAIN gauge
                THEN [gauge EXCEPT ![k] = [attributes |-> lvs, value |-> @.value + 1]]
                ELSE gauge @@ (k :> [attributes |-> lvs, value |-> 1])
    /\ added' = IF lvs \in DOMAIN added
                THEN [added EXCEPT ![lvs] = @ + 1]
                ELSE added @@ (lvs :> 1)
    /\ UNCHANGED <<arrays, slices, depth, intended, recorded, owed>>

AddCount == FoldFunction(+, 0, added)

\* f with one more call counted under key k.
CountCall(f, k) == IF k \in DOMAIN f THEN [f EXCEPT ![k] = @ + 1] ELSE f @@ (k :> 1)

RecordCount == FoldFunction(+, 0, recorded)

\* An SDK call of an instrument of the given kind taken With slices[h]:
\* the attributes are ToLabels of the list as it is now.
RecordWith(kind, h) ==
    /\ RecordCount < MaxRecords
    /\ recorded' = CountCall(recorded, <<kind, ToLabels(Contents(slices[h]))>>)
    /\ owed' = CountCall(owed, <<kind, ToLabels(intended[h])>>)
    /\ UNCHANGED <<arrays, slices, depth, intended, gauge, added>>

\* otelCounter.Add: c.ip.Add(ctx, delta, c.labelNamesValues.ToLabels()...).
CounterAdd(h) == RecordWith("counter", h)

\* otelHistogram.Observe: h.ip.Record(ctx, incr, h.labelNamesValues.ToLabels()...).
HistogramObserve(h) == RecordWith("histogram", h)

\* A With call on any label list derived so far.
WithCall ==
    \E h \in DOMAIN slices, args \in ArgLists :
        /\ Len(slices) <= MaxWith
        /\ depth[h] < MaxDepth
        /\ With(h, args)

\* An Add(+1) on the gauge taken With some label list.
GaugeAdd ==
    \E lvs \in GaugeLabelLists :
        /\ AddCount < MaxAdds
        /\ AddSeries(lvs)

Next ==
    \/ WithCall \/ GaugeAdd
    \/ \E h \in DOMAIN slices : CounterAdd(h) \/ HistogramObserve(h)

Spec == Init /\ [][Next]_vars

-----------------------------------------------------------------------------
(* Properties.                                                             *)

\* Counters and histograms report to the SDK exactly the attributes their
\* callers asked for: over all Add and Observe calls so far, the
\* (name, value) pairs ToLabels made of each label list, counted per
\* instrument kind, are those of the labels passed to the With calls that
\* built it, padded to pairs.  It takes With's padding, append's storage
\* and ToLabels' pairing (which drops an odd last element) to hold.
RecordedAsIntended == recorded = owed

\* Distinct label lists of one gauge are distinct series: each series the
\* callback exports carries the attributes of its adds and their number,
\* never a sum with the adds of another label list.
SeriesPerLabelList ==
    \A k \in DOMAIN gauge : gauge[k].value = added[gauge[k].attributes]

=============================================================================
