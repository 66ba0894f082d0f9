------------------------ MODULE MCDriverCatalogCodec ------------------------
(***************************************************************************)
(* The property lists for TLC: good endpoints in several spellings, and    *)
(* endpoints that differ from a good one in a single entry, which is       *)
(* absent, of another type or at the edge of its range.                    *)
(***************************************************************************)
EXTENDS DriverCatalogCodec

CONSTANTS e1, e2, mic, mix

Plain(letters, length) ==
  [letters |-> letters, length |-> length, accent |-> "none", upper |-> FALSE,
   padded |-> FALSE, control |-> FALSE]

Upper(name) == [name EXCEPT !.upper = TRUE]
Padded(name) == [name EXCEPT !.padded = TRUE]
Accented(name, accent) == [name EXCEPT !.accent = accent]

Names ==
  {Plain(mic, 3), Upper(Padded(Plain(mic, 3))), Plain(mix, 3),
   Accented(Plain(mic, 3), "composed"), Upper(Accented(Plain(mic, 3), "decomposed")),
   Padded(Accented(Plain(mix, MaximumNameByteCount - 2), "decomposed"))}

Identifiers ==
  {[uuid |-> e1, upper |-> FALSE], [uuid |-> e1, upper |-> TRUE],
   [uuid |-> e2, upper |-> TRUE]}

Good(identifier, name, direction) ==
  [id |-> String(identifier), name |-> String(name), direction |-> String(direction),
   sampleRate |-> Number(48000), channelCount |-> Number(2)]

Model == Good([uuid |-> e1, upper |-> FALSE], Plain(mix, 3), "input")

Fraction == [type |-> "number", form |-> "fraction", value |-> 2]
NotFinite == [type |-> "number", form |-> "notFinite", value |-> 0]

Edges ==
  [id |-> {Number(1), String([uuid |-> ZeroUuid, upper |-> FALSE]),
           String([uuid |-> NotUuid, upper |-> FALSE])},
   name |-> {Number(1), String(Padded(Plain(mic, 0))),
             String([Plain(mic, 3) EXCEPT !.control = TRUE]),
             String(Plain(mic, MaximumNameByteCount)),
             String(Plain(mic, MaximumNameByteCount + 1))},
   direction |-> {Number(1), String("sideways")},
   sampleRate |-> {String("fast"), Number(0), Number(1), Number(768000),
                   Number(768001), Fraction, NotFinite},
   channelCount |-> {String("two"), Number(-1), Number(0), Number(1), Number(256),
                     Number(257), Fraction}]

Without(entries, key) == [k \in DOMAIN entries \ {key} |-> entries[k]]

EndpointValues ==
  {Dictionary(Good(id, name, "input")) : id \in Identifiers, name \in Names}
    \cup {Dictionary(Good([uuid |-> e2, upper |-> TRUE], Plain(mic, 3), "output"))}
    \cup {Dictionary(Without(Model, key)) : key \in DOMAIN Model}
    \cup UNION {{Dictionary([Model EXCEPT ![key] = value]) : value \in Edges[key]} :
                  key \in DOMAIN Edges}
    \cup {Number(1)}

Sound ==
  [schemaVersion |-> Number(1), revision |-> Number(MaxInt64), endpoints |-> Array(<< >>)]

Roots ==
  {Dictionary(Sound), String("list")}
    \cup {Dictionary(Without(Sound, key)) : key \in DOMAIN Sound}
    \cup {Dictionary([Sound EXCEPT !.schemaVersion = value]) :
            value \in {String("1"), Number(0), Number(2)}}
    \cup {Dictionary([Sound EXCEPT !.revision = value]) :
            value \in {String("1"), Number(-1), Number(MaxInt64 + 1), Fraction}}
    \cup {Dictionary([Sound EXCEPT !.endpoints = String("none")])}

=============================================================================
