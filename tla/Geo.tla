---------------------------------- MODULE Geo ----------------------------------
(***************************************************************************)
(* The positions of src/geo.c: a kGeo_t with its coordinates, the sines and   *)
(* cosines kept beside them, and its geohash.  Both coordinates are integers  *)
(* from 0 to Scale, which stand for [-90,90] and [-180,180]; halving them is  *)
(* exact, as it is in a double.  What the library itself computes may be a    *)
(* longitude below -180 degrees, a negative integer here.  A geohash is the  *)
(* sequence of its bits, of which a character of BASE32 holds CharBits.      *)
(***************************************************************************)
EXTENDS Integers, Sequences

CONSTANTS Scale,     \* the upper end of both coordinates, halved exactly (HashAssumption)
          Coords,    \* the coordinates an application sets, or a conversion gives
          Degree,    \* "degree", the 180/pi a number of radians is multiplied by
          CharBits,  \* 5
          HashSize   \* 16, the bytes of geo->geohash

VARIABLES
  geo,     \* kGeo_t: rad is lat_rad and lon_rad, trig the angles whose sines and
           \* cosines it has, both in degrees
  source   \* history: where the position ("set", "hash", or "west" when it was
           \* computed from an origin of negative lon_rad) and the geohash
           \* ("encoded" or "given") are from

NoGeo == [lat |-> 0]

GeoInit == geo = NoGeo /\ source = <<"set", "encoded">>

-----------------------------------------------------------------------------
Whole == <<0, Scale>>
Mid(range) == (range[1] + range[2]) \div 2
Half(range, bit) == IF bit = 1 THEN <<Mid(range), range[2]>> ELSE <<range[1], Mid(range)>>

(* The bits alternate between the longitude, which is first, and latitude.   *)
IsLon(n) == n % 2 = 1

BitOf(x, range) == IF x >= Mid(range) THEN 1 ELSE 0

(* The loop of kahanaGeoHashEncode, up to n bits. *)
Encoded(lat, lon, bits) ==
  LET Loop[n \in 0..bits] ==
        IF n = 0 THEN [hash |-> <<>>, lat |-> Whole, lon |-> Whole]
        ELSE LET so == Loop[n - 1]
                 b  == IF IsLon(n) THEN BitOf(lon, so.lon) ELSE BitOf(lat, so.lat)
             IN [hash |-> Append(so.hash, b),
                 lat  |-> IF IsLon(n) THEN so.lat ELSE Half(so.lat, b),
                 lon  |-> IF IsLon(n) THEN Half(so.lon, b) ELSE so.lon]
  IN Loop[bits].hash

(* The loop of kahanaGeoHashDecode: the ranges that are left. *)
Decoded(hash) ==
  LET Loop[n \in 0..Len(hash)] ==
        IF n = 0 THEN [lat |-> Whole, lon |-> Whole]
        ELSE IF IsLon(n) THEN [Loop[n - 1] EXCEPT !.lon = Half(@, hash[n])]
        ELSE [Loop[n - 1] EXCEPT !.lat = Half(@, hash[n])]
  IN Loop[Len(hash)]

(* kahanaGeoHashEncode.  The NUL behind a full geohash falls on the first     *)
(* byte of geo->precision, and makes it 0.                                   *)
HashEncode(g, precision) ==
  LET chars == IF precision > HashSize THEN HashSize ELSE precision
  IN [g EXCEPT !.geohash = Encoded(g.lat, g.lon, CharBits * chars),
               !.precision = IF chars = HashSize THEN 0 ELSE chars]

Moved(g, lat, lon) == [g EXCEPT !.lat = lat, !.lon = lon]

(* The angle of a coordinate, and the degrees of a number of radians.        *)
Angle(x) == x - Scale \div 2
OfRadians(n) == Degree * n

(* kahanaGeoSetLatLon of a WGS84 position: lat_rad and lon_rad are the degrees *)
(* multiplied by 180/pi, and the sines are of the degrees taken for radians. *)
Radians(lat, lon) == <<OfRadians(Degree * Angle(lat)), OfRadians(Degree * Angle(lon))>>
Trig(lat, lon) == <<OfRadians(Angle(lat)), OfRadians(Angle(lon))>>

SetWGS84(g, lat, lon, precision) ==
  HashEncode([Moved(g, lat, lon) EXCEPT !.rad = Radians(lat, lon), !.trig = Trig(lat, lon)], precision)

(* kahanaGeoTokyo2WGS84 moves the position a little, where to is left open    *)
(* (one below -180 degrees may stay there); the precision is the one of      *)
(* before, whatever the caller asked for.                                    *)
Tokyo2WGS84(g) ==
  {SetWGS84(g, lat, lon, g.precision) :
     lat \in Coords, lon \in Coords \cup {x \in {g.lon} : x < 0}}

NewGeo(lat, lon, precision) ==
  [lat |-> lat, lon |-> lon, rad |-> <<>>, trig |-> <<>>, precision |-> precision, geohash |-> <<>>]

(* fmod() of a full turn: the sign is that of x. *)
Fmod(x) == IF x >= 0 THEN x % Scale ELSE -((-x) % Scale)

Create ==
  /\ geo = NoGeo
  /\ \E lat, lon \in Coords, precision \in 0..(HashSize + 1) :
        geo' \in {SetWGS84(NewGeo(lat, lon, precision), lat, lon, precision)}
                 \cup Tokyo2WGS84(NewGeo(lat, lon, precision))
  /\ source' = <<"set", "encoded">>

SetLatLon ==
  /\ geo # NoGeo
  /\ \E lat, lon \in Coords, precision \in 0..(HashSize + 1) :
        geo' \in {SetWGS84(geo, lat, lon, precision)}
                 \cup Tokyo2WGS84(Moved(geo, lat, lon))
  /\ source' = <<"set", "encoded">>

(* kahanaGeoCreateWithAngleAndDistanceFromOrigin: the new latitude, and how   *)
(* far from the longitude, depend on the sines of the origin (any of Coords, *)
(* the turn counted from -180 degrees); the longitude is counted from the    *)
(* origin's lon_rad, and fmod() leaves it below -180 degrees when that is    *)
(* negative.  The application goes on with the new position.                 *)
CreateFromOrigin ==
  /\ geo # NoGeo
  /\ LET copy == SetWGS84(NewGeo(geo.lat, geo.lon, geo.precision), geo.lat, geo.lon, geo.precision)
     IN \E lat, turn \in Coords :
          geo' = SetWGS84(copy, lat, Fmod(geo.rad[2] + turn), copy.precision)
  /\ source' = <<IF geo.rad[2] < 0 THEN "west" ELSE "set", "encoded">>

(* kahanaGeoTokyo2WGS84, called for itself. *)
ToWGS84 ==
  /\ geo # NoGeo
  /\ geo' \in Tokyo2WGS84(geo)
  /\ source' = <<IF source[1] = "west" THEN "west" ELSE "set", "encoded">>

Encode ==
  /\ geo # NoGeo
  /\ \E precision \in 0..(HashSize + 1) : geo' = HashEncode(geo, precision)
  /\ source' = <<source[1], "encoded">>

(* A geohash the application has put in place, with the NUL that ends it. *)
Hashes == UNION {[1..(CharBits * n) -> {0, 1}] : n \in 0..(HashSize - 1)}

(* kahanaGeoHashDecode sets the position to the middle of the cell and leaves *)
(* lat_rad and lon_rad, the sines, the cosines and the precision as they are. *)
Decode ==
  /\ geo # NoGeo
  /\ \E hash \in Hashes \cup {geo.geohash} :
        LET cell == Decoded(hash)
        IN geo' = Moved([geo EXCEPT !.geohash = hash], Mid(cell.lat), Mid(cell.lon))
           /\ source' = <<"hash", IF hash = geo.geohash THEN source[2] ELSE "given">>

GeoNext == Create \/ SetLatLon \/ CreateFromOrigin \/ ToWGS84 \/ Encode \/ Decode

-----------------------------------------------------------------------------
GeoTypeOK ==
  geo # NoGeo =>
    /\ geo.lat \in 0..Scale /\ geo.lon \in (-Scale)..Scale /\ geo.precision \in 0..HashSize
    /\ Len(geo.geohash) \in {CharBits * n : n \in 0..HashSize}

(* How many cells the bits of one coordinate tell apart, and which they name. *)
Cell(hash, isLon) ==
  LET Named[n \in 0..Len(hash)] ==
        IF n = 0 THEN [cells |-> 1, number |-> 0]
        ELSE LET so == Named[n - 1]
             IN IF IsLon(n) # isLon THEN so
                ELSE [cells |-> 2 * so.cells, number |-> 2 * so.number + hash[n]]
  IN Named[Len(hash)]

(* The last cell holds its upper end too. *)
InCell(x, cell) ==
  /\ cell.number * Scale <= x * cell.cells
  /\ x * cell.cells < (cell.number + 1) * Scale \/ (x = Scale /\ cell.number = cell.cells - 1)

(* The coordinate of the range that is nearest. *)
Nearest(lon) == IF lon < 0 THEN 0 ELSE lon

(* Whatever has been set, converted, moved, encoded and decoded, the latitude *)
(* is in the cell the geohash numbers, and so is the longitude, or -180       *)
(* degrees if it is below: which it only is when it was computed from an      *)
(* origin whose lon_rad is negative.  So decoding moves a position within its *)
(* cell.  An encoded geohash has the characters geo->precision tells, unless  *)
(* it is full; and lon_rad, lat_rad, the sines and cosines are what           *)
(* kahanaGeoSetLatLon makes of any position but a decoded one.               *)
GeohashOfPosition ==
  geo # NoGeo =>
    /\ InCell(geo.lat, Cell(geo.geohash, FALSE)) /\ InCell(Nearest(geo.lon), Cell(geo.geohash, TRUE))
    /\ geo.lon < 0 => source[1] = "west"
    /\ source[2] = "encoded" =>
         CharBits * geo.precision = IF Len(geo.geohash) = CharBits * HashSize THEN 0 ELSE Len(geo.geohash)
    /\ source[1] # "hash" => geo.rad = Radians(geo.lat, geo.lon) /\ geo.trig = Trig(geo.lat, geo.lon)
================================================================================
