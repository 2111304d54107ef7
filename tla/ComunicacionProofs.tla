------------------------- MODULE ComunicacionProofs -------------------------
(***************************************************************************)
(* What TLAPS proves of Comunicacion, for any number of messages, wherever *)
(* TCP cuts them.                                                          *)
(***************************************************************************)
EXTENDS Comunicacion, TLAPS, SequenceTheorems

-----------------------------------------------------------------------------
(* What each message is read with *)

\* Whatever a field may be: an op_code or the name of a datum.
Palabras ==
  (UNION {Codigos(c) : c \in Conexiones})
  \cup {"tamanio", "pid", "program_counter", "ax", "bx", "cx", "dx", "cantidad_instrucciones",
        "instrucciones", "cantidad_segmentos", "segmentos", "socket_consola",
        "tamanio_pagina", "entradas_por_tabla", "texto", "valor", "numero_pagina", "marco",
        "desplazamiento", "indice_tabla"}

Pasos == [campo : Palabras, waitall : BOOLEAN]

\* The recvs g are for the fields of e that follow its op_code.
Concuerda(e, g, codigo) ==
  /\ e \in Seq(Palabras) /\ g \in Seq(Pasos)
  /\ Len(e) = 1 + Len(g)
  /\ e[1] = codigo
  /\ \A a \in 1 .. Len(g) : g[a].campo = e[a + 1]

LEMMA EnPalabras ==
  /\ \A c \in Conexiones : Codigos(c) \subseteq Palabras
  /\ "tamanio" \in Palabras /\ "pid" \in Palabras
  /\ "program_counter" \in Palabras /\ "ax" \in Palabras
  /\ "bx" \in Palabras /\ "cx" \in Palabras
  /\ "dx" \in Palabras /\ "cantidad_instrucciones" \in Palabras
  /\ "instrucciones" \in Palabras /\ "cantidad_segmentos" \in Palabras
  /\ "segmentos" \in Palabras /\ "socket_consola" \in Palabras
  /\ "tamanio_pagina" \in Palabras /\ "entradas_por_tabla" \in Palabras
  /\ "texto" \in Palabras /\ "valor" \in Palabras
  /\ "numero_pagina" \in Palabras /\ "marco" \in Palabras
  /\ "desplazamiento" \in Palabras /\ "indice_tabla" \in Palabras
  BY DEF Palabras

\* A list of fields and the recvs of all of them.
LEMMA Recvs ==
  ASSUME NEW G \in Seq(Palabras)
  PROVE  /\ Entero(G) \in Seq(Pasos) /\ LoQueHaya(G) \in Seq(Pasos)
         /\ Len(Entero(G)) = Len(G) /\ Len(LoQueHaya(G)) = Len(G)
         /\ \A a \in 1 .. Len(G) : Entero(G)[a].campo = G[a] /\ LoQueHaya(G)[a].campo = G[a]
<1>1. DOMAIN G = 1 .. Len(G) /\ Len(G) \in Nat
  BY LenProperties
<1>2. \A a \in 1 .. Len(G) : G[a] \in Palabras
  BY ElementOfSeq
<1>3. /\ Entero(G) = [i \in 1 .. Len(G) |-> [campo |-> G[i], waitall |-> TRUE]]
      /\ LoQueHaya(G) = [i \in 1 .. Len(G) |-> [campo |-> G[i], waitall |-> FALSE]]
  BY <1>1 DEF Entero, LoQueHaya
<1>4. /\ \A a \in 1 .. Len(G) : [campo |-> G[a], waitall |-> TRUE] \in Pasos
      /\ \A a \in 1 .. Len(G) : [campo |-> G[a], waitall |-> FALSE] \in Pasos
  BY <1>2 DEF Pasos
<1>5. /\ Entero(G) \in [1 .. Len(G) -> Pasos] /\ LoQueHaya(G) \in [1 .. Len(G) -> Pasos]
  BY <1>3, <1>4
<1>6. \A h \in [1 .. Len(G) -> Pasos] : h \in Seq(Pasos) /\ Len(h) = Len(G)
  BY <1>1, SeqDef, LenProperties
<1>7. \A a \in 1 .. Len(G) : Entero(G)[a].campo = G[a] /\ LoQueHaya(G)[a].campo = G[a]
  BY <1>3
<1> QED
  BY <1>5, <1>6, <1>7

\* Two lists one after the other.
LEMMA Junta ==
  ASSUME NEW S, NEW s \in Seq(S), NEW t \in Seq(S)
  PROVE  /\ s \o t \in Seq(S) /\ Len(s \o t) = Len(s) + Len(t)
         /\ \A a \in 1 .. Len(s) : (s \o t)[a] = s[a]
         /\ \A a \in 1 .. Len(t) : (s \o t)[a + Len(s)] = t[a]
  OBVIOUS

\* The same, of two lists of fields.
LEMMA JuntaPalabras ==
  \A s, t \in Seq(Palabras) :
     /\ s \o t \in Seq(Palabras) /\ Len(s \o t) = Len(s) + Len(t)
     /\ \A a \in 1 .. Len(s) : (s \o t)[a] = s[a]
     /\ \A a \in 1 .. Len(t) : (s \o t)[a + Len(s)] = t[a]
<1> TAKE s, t \in Seq(Palabras)
<1> QED
  BY Junta

\* A buffer of fields, read at once or field after field.
LEMMA ConcuerdaBuffer ==
  ASSUME NEW codigo \in Palabras, NEW F \in Seq(Palabras)
  PROVE  /\ Concuerda(<<codigo, "tamanio">> \o F, recibir_buffer(F), codigo)
         /\ Concuerda(<<codigo, "tamanio">> \o F, Entero(<<"tamanio">>) \o LoQueHaya(F), codigo)
<1> DEFINE c == <<codigo, "tamanio">>
           t == <<"tamanio">>
<1>1. c \in Seq(Palabras) /\ Len(c) = 2 /\ c[1] = codigo /\ c[2] = "tamanio"
  BY EnPalabras
<1>2. t \in Seq(Palabras) /\ Len(t) = 1 /\ t[1] = "tamanio"
  BY EnPalabras
<1> HIDE DEF c, t
<1>3. /\ c \o F \in Seq(Palabras) /\ Len(c \o F) = 2 + Len(F) /\ Len(F) \in Nat
      /\ (c \o F)[1] = codigo /\ (c \o F)[2] = "tamanio"
      /\ \A a \in 1 .. Len(F) : (c \o F)[a + 2] = F[a]
  <2>1. Len(F) \in Nat
    BY LenProperties
  <2>2. /\ c \o F \in Seq(Palabras) /\ Len(c \o F) = Len(c) + Len(F)
        /\ \A a \in 1 .. Len(c) : (c \o F)[a] = c[a]
        /\ \A a \in 1 .. Len(F) : (c \o F)[a + Len(c)] = F[a]
    BY <1>1, JuntaPalabras, Zenon
  <2>3. PICK z : z = c \o F
    OBVIOUS
  <2>4. /\ Len(z) = 2 + Len(F) /\ \A a \in 1 .. 2 : z[a] = c[a]
        /\ \A a \in 1 .. Len(F) : z[a + 2] = F[a]
    BY <1>1, <2>2, <2>3, Zenon
  <2>5. 1 \in 1 .. 2 /\ 2 \in 1 .. 2
    OBVIOUS
  <2>6. z[1] = codigo /\ z[2] = "tamanio"
    BY <1>1, <2>4, <2>5, Zenon
  <2> QED
    BY <2>1, <2>2, <2>3, <2>4, <2>6, Zenon
<1>4. /\ t \o F \in Seq(Palabras) /\ Len(t \o F) = 1 + Len(F)
      /\ (t \o F)[1] = "tamanio"
      /\ \A a \in 1 .. Len(F) : (t \o F)[a + 1] = F[a]
  <2>1. /\ t \o F \in Seq(Palabras) /\ Len(t \o F) = Len(t) + Len(F)
        /\ \A a \in 1 .. Len(t) : (t \o F)[a] = t[a]
        /\ \A a \in 1 .. Len(F) : (t \o F)[a + Len(t)] = F[a]
    BY <1>2, JuntaPalabras, Zenon
  <2>2. PICK z : z = t \o F
    OBVIOUS
  <2>3. /\ Len(z) = 1 + Len(F) /\ \A a \in 1 .. 1 : z[a] = t[a]
        /\ \A a \in 1 .. Len(F) : z[a + 1] = F[a]
    BY <1>2, <2>1, <2>2, Zenon
  <2>4. 1 \in 1 .. 1
    OBVIOUS
  <2>5. z[1] = "tamanio"
    BY <1>2, <2>3, <2>4, Zenon
  <2> QED
    BY <2>1, <2>2, <2>3, <2>5, Zenon
<1>6. Concuerda(c \o F, Entero(t \o F), codigo)
  <2>1. \A a \in 1 .. 1 + Len(F) : (t \o F)[a] = (c \o F)[a + 1]
    <3> TAKE a \in 1 .. 1 + Len(F)
    <3>1. CASE a = 1
      BY <1>3, <1>4, <3>1
    <3>2. CASE a # 1
      <4>1. PICK b \in 1 .. Len(F) : a = b + 1
        BY <1>3, <3>2
      <4>2. a + 1 = b + 2
        BY <4>1, <1>3
      <4> QED
        BY <1>3, <1>4, <4>1, <4>2
    <3> QED
      BY <3>1, <3>2
  <2>2. PICK G \in Seq(Palabras) : G = t \o F
    BY <1>4
  <2>3. PICK g : g = Entero(G)
    OBVIOUS
  <2>4. PICK e : e = c \o F
    OBVIOUS
  <2>5. g \in Seq(Pasos) /\ Len(g) = Len(G) /\ \A a \in 1 .. Len(G) : g[a].campo = G[a]
    BY <2>3, Recvs
  <2>6. e \in Seq(Palabras) /\ e[1] = codigo /\ Len(e) = 2 + Len(F) /\ Len(G) = 1 + Len(F)
    BY <1>3, <1>4, <2>2, <2>4
  <2>7. \A a \in 1 .. Len(G) : g[a].campo = e[a + 1]
    BY <2>1, <2>2, <2>4, <2>5, <2>6
  <2>8. Len(e) = 1 + Len(g)
    BY <1>3, <2>5, <2>6
  <2>9. Concuerda(e, g, codigo)
    BY <2>5, <2>6, <2>7, <2>8 DEF Concuerda
  <2> QED
    BY <2>2, <2>3, <2>4, <2>9
<1>7. Concuerda(c \o F, Entero(t) \o LoQueHaya(F), codigo)
  <2> DEFINE g == Entero(t) \o LoQueHaya(F)
  <2>1. /\ g \in Seq(Pasos) /\ Len(g) = 1 + Len(F)
        /\ g[1].campo = "tamanio"
        /\ \A a \in 1 .. Len(F) : g[a + 1].campo = F[a]
    <3>1. PICK x, y : x = Entero(t) /\ y = LoQueHaya(F)
      OBVIOUS
    <3>2. /\ x \in Seq(Pasos) /\ Len(x) = 1 /\ x[1].campo = "tamanio"
          /\ y \in Seq(Pasos) /\ Len(y) = Len(F) /\ \A a \in 1 .. Len(F) : y[a].campo = F[a]
      BY <1>2, <3>1, Recvs
    <3>3. g = x \o y
      BY <3>1
    <3> HIDE DEF g
    <3>4. /\ g \in Seq(Pasos) /\ Len(g) = 1 + Len(F)
          /\ \A a \in 1 .. 1 : g[a] = x[a]
          /\ \A a \in 1 .. Len(F) : g[a + 1] = y[a]
      <4>1. /\ g \in Seq(Pasos) /\ Len(g) = Len(x) + Len(y)
            /\ \A a \in 1 .. Len(x) : g[a] = x[a]
            /\ \A a \in 1 .. Len(y) : g[a + Len(x)] = y[a]
        <5> HIDE DEF Pasos
        <5>1. x \in Seq(Pasos) /\ y \in Seq(Pasos)
          BY <3>2
        <5> QED
          BY <5>1, <3>3, Junta
      <4> QED
        BY <3>2, <4>1
    <3>5. g[1] = x[1]
      BY <3>4
    <3> QED
      BY <3>2, <3>4, <3>5
  <2> HIDE DEF g
  <2>2. \A a \in 1 .. 1 + Len(F) : g[a].campo = (c \o F)[a + 1]
    <3> TAKE a \in 1 .. 1 + Len(F)
    <3>1. CASE a = 1
      BY <1>3, <2>1, <3>1
    <3>2. CASE a # 1
      <4>1. PICK b \in 1 .. Len(F) : a = b + 1
        BY <1>3, <3>2
      <4>2. a + 1 = b + 2
        BY <4>1, <1>3
      <4> QED
        BY <1>3, <2>1, <4>1, <4>2
    <3> QED
      BY <3>1, <3>2
  <2> QED
    BY <1>3, <2>1, <2>2, SMTT(40) DEF Concuerda, g
<1> QED
  BY <1>6, <1>7 DEF recibir_buffer, c, t

LEMMA ConcuerdaHandshake ==
  ASSUME NEW codigo \in Palabras
  PROVE  Concuerda(<<codigo, "tamanio">> \o <<"tamanio_pagina", "entradas_por_tabla">>,
                   LoQueHaya(<<"tamanio", "tamanio_pagina", "entradas_por_tabla">>), codigo)
<1>1. PICK s \in Seq(Palabras) : s = <<codigo, "tamanio">>
  <2>1. <<codigo, "tamanio">> \in Seq(Palabras)
    BY EnPalabras
  <2> QED
    BY <2>1
<1>2. PICK t \in Seq(Palabras) : t = <<"tamanio_pagina", "entradas_por_tabla">>
  <2>1. <<"tamanio_pagina", "entradas_por_tabla">> \in Seq(Palabras)
    BY EnPalabras
  <2> QED
    BY <2>1
<1>3. PICK G \in Seq(Palabras) : G = <<"tamanio", "tamanio_pagina", "entradas_por_tabla">>
  <2>1. <<"tamanio", "tamanio_pagina", "entradas_por_tabla">> \in Seq(Palabras)
    BY EnPalabras
  <2> QED
    BY <2>1
<1>4. /\ Len(s) = 2 /\ s[1] = codigo /\ s[2] = "tamanio"
      /\ Len(t) = 2 /\ t[1] = "tamanio_pagina" /\ t[2] = "entradas_por_tabla"
      /\ Len(G) = 3 /\ G[1] = "tamanio" /\ G[2] = "tamanio_pagina" /\ G[3] = "entradas_por_tabla"
  BY <1>1, <1>2, <1>3
<1>5. PICK e : e = s \o t
  OBVIOUS
<1>6. /\ e \in Seq(Palabras) /\ Len(e) = 4 /\ e[1] = codigo
      /\ e[2] = "tamanio" /\ e[3] = "tamanio_pagina" /\ e[4] = "entradas_por_tabla"
  <2>1. /\ e \in Seq(Palabras) /\ Len(e) = Len(s) + Len(t)
        /\ \A i \in 1 .. Len(s) : e[i] = s[i]
        /\ \A i \in 1 .. Len(t) : e[i + Len(s)] = t[i]
    BY <1>5, Junta
  <2>2. Len(s) = 2 /\ Len(t) = 2
    BY <1>4
  <2>3. /\ Len(e) = 4
        /\ e[1] = s[1] /\ e[2] = s[2]
        /\ e[1 + 2] = t[1] /\ e[2 + 2] = t[2]
    BY <2>1, <2>2
  <2> QED
    BY <2>1, <2>3, <1>4
<1>7. PICK g : g = LoQueHaya(G)
  OBVIOUS
<1>8. /\ g \in Seq(Pasos) /\ Len(g) = 3 /\ \A a \in 1 .. 3 : g[a].campo = G[a]
  BY <1>4, <1>7, Recvs
<1>9. \A a \in 1 .. 3 : g[a].campo = e[a + 1]
  <2>1. \A a \in 1 .. 3 : a = 1 \/ a = 2 \/ a = 3
    OBVIOUS
  <2> QED
    BY <1>4, <1>6, <1>8, <2>1
<1>10. Concuerda(e, g, codigo)
  BY <1>6, <1>8, <1>9 DEF Concuerda
<1> QED
  BY <1>1, <1>2, <1>3, <1>5, <1>7, <1>10

LEMMA ConcuerdaListas ==
  ASSUME NEW codigo \in Palabras
  PROVE  Concuerda(<<codigo, "tamanio">> \o Listas, recibir_listas, codigo)
<1>1. PICK s \in Seq(Palabras) : s = <<codigo, "tamanio">>
  <2>1. <<codigo, "tamanio">> \in Seq(Palabras)
    BY EnPalabras
  <2> QED
    BY <2>1
<1>2. PICK t \in Seq(Palabras) : t = Listas
  <2>1. Listas \in Seq(Palabras)
    BY EnPalabras DEF Listas
  <2> QED
    BY <2>1
<1>3. PICK u \in Seq(Palabras) : u = <<"tamanio">>
  <2>1. <<"tamanio">> \in Seq(Palabras)
    BY EnPalabras
  <2> QED
    BY <2>1
<1>4. PICK v \in Seq(Palabras) : v = <<"cantidad_instrucciones", "instrucciones">>
  <2>1. <<"cantidad_instrucciones", "instrucciones">> \in Seq(Palabras)
    BY EnPalabras
  <2> QED
    BY <2>1
<1>5. PICK w \in Seq(Palabras) : w = <<"cantidad_segmentos", "segmentos">>
  <2>1. <<"cantidad_segmentos", "segmentos">> \in Seq(Palabras)
    BY EnPalabras
  <2> QED
    BY <2>1
<1>6. /\ Len(s) = 2 /\ s[1] = codigo /\ s[2] = "tamanio"
      /\ Len(t) = 4 /\ t[1] = "cantidad_instrucciones" /\ t[2] = "instrucciones"
      /\ t[3] = "cantidad_segmentos" /\ t[4] = "segmentos"
  BY <1>1, <1>2 DEF Listas
<1>7. /\ Len(u) = 1 /\ u[1] = "tamanio"
      /\ Len(v) = 2 /\ v[1] = "cantidad_instrucciones" /\ v[2] = "instrucciones"
      /\ Len(w) = 2 /\ w[1] = "cantidad_segmentos" /\ w[2] = "segmentos"
  BY <1>3, <1>4, <1>5
<1>8. PICK e : e = s \o t
  OBVIOUS
<1>9. /\ e \in Seq(Palabras) /\ Len(e) = 6 /\ e[1] = codigo /\ e[2] = "tamanio"
      /\ e[3] = "cantidad_instrucciones" /\ e[4] = "instrucciones"
      /\ e[5] = "cantidad_segmentos" /\ e[6] = "segmentos"
  <2>1. /\ e \in Seq(Palabras) /\ Len(e) = Len(s) + Len(t)
        /\ \A i \in 1 .. Len(s) : e[i] = s[i]
        /\ \A i \in 1 .. Len(t) : e[i + Len(s)] = t[i]
    BY <1>8, Junta
  <2>2. Len(s) = 2 /\ Len(t) = 4
    BY <1>6
  <2>3. /\ Len(e) = 6
        /\ e[1] = s[1] /\ e[2] = s[2]
        /\ e[1 + 2] = t[1] /\ e[2 + 2] = t[2] /\ e[3 + 2] = t[3] /\ e[4 + 2] = t[4]
    BY <2>1, <2>2
  <2> QED
    BY <2>1, <2>3, <1>6
<1>10. PICK x, y, z : x = LoQueHaya(u) /\ y = Entero(v) /\ z = LoQueHaya(w)
  OBVIOUS
<1>11. /\ x \in Seq(Pasos) /\ Len(x) = 1 /\ x[1].campo = "tamanio"
       /\ y \in Seq(Pasos) /\ Len(y) = 2 /\ y[1].campo = "cantidad_instrucciones"
       /\ y[2].campo = "instrucciones"
       /\ z \in Seq(Pasos) /\ Len(z) = 2 /\ z[1].campo = "cantidad_segmentos"
       /\ z[2].campo = "segmentos"
  <2>1. x \in Seq(Pasos) /\ Len(x) = Len(u) /\ \A a \in 1 .. Len(u) : x[a].campo = u[a]
    BY <1>10, Recvs
  <2>2. y \in Seq(Pasos) /\ Len(y) = Len(v) /\ \A a \in 1 .. Len(v) : y[a].campo = v[a]
    BY <1>10, Recvs
  <2>3. z \in Seq(Pasos) /\ Len(z) = Len(w) /\ \A a \in 1 .. Len(w) : z[a].campo = w[a]
    BY <1>10, Recvs
  <2>4. x[1].campo = u[1] /\ y[1].campo = v[1] /\ y[2].campo = v[2] /\ z[1].campo = w[1] /\ z[2].campo = w[2]
    BY <1>7, <2>1, <2>2, <2>3
  <2> QED
    BY <1>7, <2>1, <2>2, <2>3, <2>4
<1>12. PICK h : h = x \o y
  OBVIOUS
<1>13. h \in Seq(Pasos) /\ Len(h) = 3 /\ h[1] = x[1] /\ h[2] = y[1] /\ h[3] = y[2]
  <2>1. /\ h \in Seq(Pasos) /\ Len(h) = Len(x) + Len(y)
        /\ \A i \in 1 .. Len(x) : h[i] = x[i]
        /\ \A i \in 1 .. Len(y) : h[i + Len(x)] = y[i]
    <3>1. x \in Seq(Pasos) /\ y \in Seq(Pasos)
      BY <1>11
    <3> QED
      BY <3>1, <1>12, Junta
  <2>2. Len(x) = 1 /\ Len(y) = 2
    BY <1>11
  <2>3. /\ Len(h) = 3
        /\ h[1] = x[1]
        /\ h[1 + 1] = y[1] /\ h[2 + 1] = y[2]
    BY <2>1, <2>2
  <2> QED
    BY <2>1, <2>3, <1>11
<1>14. PICK g : g = h \o z
  OBVIOUS
<1>15. /\ g \in Seq(Pasos) /\ Len(g) = 5 /\ g[1] = h[1] /\ g[2] = h[2] /\ g[3] = h[3]
       /\ g[4] = z[1] /\ g[5] = z[2]
  <2>1. /\ g \in Seq(Pasos) /\ Len(g) = Len(h) + Len(z)
        /\ \A i \in 1 .. Len(h) : g[i] = h[i]
        /\ \A i \in 1 .. Len(z) : g[i + Len(h)] = z[i]
    <3>1. h \in Seq(Pasos) /\ z \in Seq(Pasos)
      BY <1>11, <1>13
    <3> QED
      BY <3>1, <1>14, Junta
  <2>2. Len(h) = 3 /\ Len(z) = 2
    BY <1>11, <1>13
  <2>3. /\ Len(g) = 5
        /\ g[1] = h[1] /\ g[2] = h[2] /\ g[3] = h[3]
        /\ g[1 + 3] = z[1] /\ g[2 + 3] = z[2]
    BY <2>1, <2>2
  <2> QED
    BY <2>1, <2>3, <1>11, <1>13
<1>16. \A a \in 1 .. 5 : g[a].campo = e[a + 1]
  <2>1. \A a \in 1 .. 5 : a = 1 \/ a = 2 \/ a = 3 \/ a = 4 \/ a = 5
    OBVIOUS
  <2> QED
    BY <1>9, <1>11, <1>13, <1>15, <2>1, SMTT(40)
<1>17. Concuerda(e, g, codigo)
  BY <1>9, <1>15, <1>16 DEF Concuerda
<1> QED
  BY <1>1, <1>2, <1>3, <1>4, <1>5, <1>8, <1>10, <1>12, <1>14, <1>17 DEF recibir_listas

LEMMA CamposPalabras == CamposPCB \in Seq(Palabras) /\ Listas \in Seq(Palabras)
<1>1. Listas \in Seq(Palabras)
  BY EnPalabras DEF Listas
<1>2. PICK s \in Seq(Palabras) : s = <<"pid", "program_counter", "ax", "bx", "cx", "dx">>
  <2>1. <<"pid", "program_counter", "ax", "bx", "cx", "dx">> \in Seq(Palabras)
    BY EnPalabras
  <2> QED
    BY <2>1
<1>3. PICK t \in Seq(Palabras) : t = <<"socket_consola">>
  <2>1. <<"socket_consola">> \in Seq(Palabras)
    BY EnPalabras
  <2> QED
    BY <2>1
<1>4. PICK l \in Seq(Palabras) : l = Listas
  BY <1>1
<1>5. (s \o l) \o t \in Seq(Palabras)
  BY Junta
<1> QED
  BY <1>1, <1>2, <1>3, <1>4, <1>5 DEF CamposPCB

\* Every receiver reads the fields of its message, all and in their order.
LEMMA Acordado ==
  ASSUME conexion \in Conexiones, NEW codigo \in Codigos(conexion)
  PROVE  Concuerda(Escribe(codigo), Lee(codigo), codigo)
<1>1. codigo \in Palabras
  BY EnPalabras
<1>2. CASE <<conexion, codigo>> \in SoloCodigo
  <2>3. <<conexion, codigo>> \notin ConPCB
    BY <1>2 DEF SoloCodigo, ConPCB
  <2>4. /\ conexion # "cpu_memoria"
        /\ codigo \notin {"LISTA_INSTRUCCIONES_SEGMENTOS", "HANDSHAKE_CPU_MEMORIA", "MENSAJE"}
    BY <1>2 DEF SoloCodigo
  <2>1. Escribe(codigo) = <<codigo>> /\ Lee(codigo) = <<>>
    BY <1>2, <2>3, <2>4 DEF Escribe, Lee
  <2>2. Concuerda(<<codigo>>, <<>>, codigo)
    BY <1>1 DEF Concuerda
  <2> QED
    BY <2>1, <2>2
<1>3. CASE <<conexion, codigo>> \notin SoloCodigo /\ <<conexion, codigo>> \in ConPCB
  <2>3. conexion \in {"kernel_memoria", "kernel_cpu", "cpu_kernel", "memoria_kernel"}
    BY <1>3 DEF ConPCB
  <2>4. codigo \notin {"LISTA_INSTRUCCIONES_SEGMENTOS", "HANDSHAKE_CPU_MEMORIA", "MENSAJE"}
    BY <2>3 DEF Codigos, Motivos
  <2>1. Escribe(codigo) = <<codigo, "tamanio">> \o CamposPCB
    BY <1>3, <2>3 DEF Escribe
  <2>2. Lee(codigo) = Entero(<<"tamanio">>) \o LoQueHaya(CamposPCB)
    BY <1>3, <2>3, <2>4 DEF Lee, recibir_PCB
  <2> QED
    BY <1>1, <2>1, <2>2, CamposPalabras, ConcuerdaBuffer
<1>4. CASE <<conexion, codigo>> \notin SoloCodigo /\ <<conexion, codigo>> \notin ConPCB
  <2>1. \/ conexion = "consola_kernel" /\ codigo \in {"LISTA_INSTRUCCIONES_SEGMENTOS", "INPUT_VALOR"}
        \/ conexion = "kernel_consola" /\ codigo = "IMPRIMIR_VALOR"
        \/ conexion = "cpu_memoria" /\ codigo \in {"ESCRIBIR_MEMORIA", "LEER_MEMORIA", "OBTENER_MARCO"}
        \/ /\ conexion = "memoria_cpu"
           /\ codigo \in {"HANDSHAKE_CPU_MEMORIA", "MENSAJE", "LEER_MEMORIA", "OBTENER_MARCO"}
    <3>1. conexion \notin {"kernel_memoria", "kernel_cpu", "cpu_kernel"}
      BY <1>4 DEF ConPCB
    <3>2. CASE conexion = "interrupt"
      BY <1>4, <3>2 DEF Codigos, SoloCodigo
    <3>3. CASE conexion = "memoria_kernel"
      BY <1>4, <3>3 DEF Codigos, SoloCodigo, ConPCB
    <3>4. CASE conexion = "consola_kernel"
      BY <1>4, <3>4 DEF Codigos, SoloCodigo
    <3>5. CASE conexion = "kernel_consola"
      BY <1>4, <3>5 DEF Codigos, SoloCodigo
    <3>6. CASE conexion = "cpu_memoria"
      BY <1>4, <3>6 DEF Codigos, SoloCodigo
    <3>7. CASE conexion = "memoria_cpu"
      BY <1>4, <3>7 DEF Codigos, SoloCodigo
    <3> QED
      BY <3>1, <3>2, <3>3, <3>4, <3>5, <3>6, <3>7 DEF Conexiones
  <2> DEFINE EsBuffer(F) == /\ F \in Seq(Palabras) /\ Escribe(codigo) = <<codigo, "tamanio">> \o F
                            /\ Lee(codigo) = recibir_buffer(F)
  <2>2. ASSUME NEW F, EsBuffer(F) PROVE Concuerda(Escribe(codigo), Lee(codigo), codigo)
    BY <1>1, <2>2, ConcuerdaBuffer
  <2>3. CASE conexion = "cpu_memoria"
    <3>1. Escribe(codigo) = <<codigo, "tamanio">> \o CuerpoAMemoria(codigo)
      BY <1>4, <2>3 DEF Escribe
    <3>2. CASE codigo = "ESCRIBIR_MEMORIA"
      <4>1. PICK F \in Seq(Palabras) : F = <<"pid", "numero_pagina", "marco", "desplazamiento", "indice_tabla", "valor">>
        <5>1. <<"pid", "numero_pagina", "marco", "desplazamiento", "indice_tabla", "valor">> \in Seq(Palabras)
          BY EnPalabras
        <5> QED
          BY <5>1
      <4>2. CuerpoAMemoria(codigo) = F
        BY <3>2, <4>1 DEF CuerpoAMemoria
      <4>3. Lee(codigo) = recibir_buffer(F)
        BY <1>4, <2>3, <3>2, <4>1 DEF Lee
      <4> QED
        BY <2>2, <3>1, <4>2, <4>3
    <3>3. CASE codigo = "LEER_MEMORIA"
      <4>1. PICK F \in Seq(Palabras) : F = <<"pid", "indice_tabla", "numero_pagina", "marco", "desplazamiento">>
        <5>1. <<"pid", "indice_tabla", "numero_pagina", "marco", "desplazamiento">> \in Seq(Palabras)
          BY EnPalabras
        <5> QED
          BY <5>1
      <4>2. CuerpoAMemoria(codigo) = F
        BY <3>3, <4>1 DEF CuerpoAMemoria
      <4>3. Lee(codigo) = recibir_buffer(F)
        BY <1>4, <2>3, <3>3, <4>1 DEF Lee
      <4> QED
        BY <2>2, <3>1, <4>2, <4>3
    <3>4. CASE codigo = "OBTENER_MARCO"
      <4>1. PICK F \in Seq(Palabras) : F = <<"pid", "indice_tabla", "numero_pagina">>
        <5>1. <<"pid", "indice_tabla", "numero_pagina">> \in Seq(Palabras)
          BY EnPalabras
        <5> QED
          BY <5>1
      <4>2. CuerpoAMemoria(codigo) = F
        BY <3>4, <4>1 DEF CuerpoAMemoria
      <4>3. Lee(codigo) = recibir_buffer(F)
        BY <1>4, <2>3, <3>4, <4>1 DEF Lee
      <4> QED
        BY <2>2, <3>1, <4>2, <4>3
    <3> QED
      BY <2>1, <2>3, <3>2, <3>3, <3>4
  <2>4. CASE conexion # "cpu_memoria"
    <3>1. Escribe(codigo) = <<codigo, "tamanio">> \o CuerpoACpu(codigo)
      BY <1>4, <2>4 DEF Escribe
    <3>2. CASE codigo \in {"INPUT_VALOR", "IMPRIMIR_VALOR", "LEER_MEMORIA", "OBTENER_MARCO"}
      <4>1. PICK F \in Seq(Palabras) : F = <<"valor">>
        <5>1. <<"valor">> \in Seq(Palabras)
          BY EnPalabras
        <5> QED
          BY <5>1
      <4>2. CuerpoACpu(codigo) = F
        BY <3>2, <4>1 DEF CuerpoACpu, Cuerpo
      <4>3. Lee(codigo) = recibir_buffer(F)
        BY <1>4, <2>4, <3>2, <4>1 DEF Lee, recibir_valor
      <4> QED
        BY <2>2, <3>1, <4>2, <4>3
    <3>3. CASE codigo = "MENSAJE"
      <4>1. PICK F \in Seq(Palabras) : F = <<"texto">>
        <5>1. <<"texto">> \in Seq(Palabras)
          BY EnPalabras
        <5> QED
          BY <5>1
      <4>2. CuerpoACpu(codigo) = F
        BY <3>3, <4>1 DEF CuerpoACpu, Cuerpo
      <4>3. Lee(codigo) = recibir_buffer(F)
        BY <1>4, <2>4, <3>3, <4>1 DEF Lee
      <4> QED
        BY <2>2, <3>1, <4>2, <4>3
    <3>4. CASE codigo = "HANDSHAKE_CPU_MEMORIA"
      <4>1. Escribe(codigo) = <<codigo, "tamanio">> \o <<"tamanio_pagina", "entradas_por_tabla">>
        BY <3>1, <3>4 DEF CuerpoACpu, Cuerpo
      <4>2. Lee(codigo) = LoQueHaya(<<"tamanio", "tamanio_pagina", "entradas_por_tabla">>)
        BY <1>4, <2>4, <3>4 DEF Lee, handshake_memoria
      <4> QED
        BY <1>1, <4>1, <4>2, ConcuerdaHandshake
    <3>5. CASE conexion = "consola_kernel" /\ codigo = "LISTA_INSTRUCCIONES_SEGMENTOS"
      <4>1. Escribe(codigo) = <<codigo, "tamanio">> \o Listas
        BY <3>1, <3>5 DEF CuerpoACpu, Cuerpo
      <4>2. Lee(codigo) = recibir_listas
        BY <1>4, <3>5 DEF Lee
      <4> QED
        BY <1>1, <4>1, <4>2, ConcuerdaListas
    <3> QED
      BY <2>1, <2>4, <3>2, <3>3, <3>4, <3>5
  <2> QED
    BY <2>3, <2>4
<1> QED
  BY <1>2, <1>3, <1>4

-----------------------------------------------------------------------------
(* The inductive invariant *)

Tipos ==
  /\ conexion \in Conexiones
  /\ enviados \in Seq(Codigos(conexion)) /\ entregados \in Seq(Codigos(conexion))
  /\ stream \in Seq(Palabras) /\ llegado \in 0 .. 2 * Len(stream)
  /\ guion \in Seq(Pasos) /\ leyendo \in Codigos(conexion) \cup {"nada"}
  /\ {corta, confundido, cerrado, fin} \subseteq BOOLEAN

\* The first message no field of which was read.
Proxima == Len(entregados) + IF leyendo = "nada" THEN 1 ELSE 2

\* The message that is read is the next of those sent, and what the receiver has still
\* to recv of it is at the head of the stream.
Recepcion ==
  /\ ~ confundido
  /\ Proxima <= Len(enviados) + 1
  /\ \A i \in 1 .. Len(entregados) : entregados[i] = enviados[i]
  /\ leyendo # "nada" => enviados[Len(entregados) + 1] = leyendo
  /\ leyendo = "nada" <=> guion = <<>>
  /\ \A a \in 1 .. Len(guion) : stream[a] = guion[a].campo
  /\ fin => leyendo = "nada" /\ cerrado /\ stream = <<>>

\* Messages p to n follow each other to the end of the stream: ini[i] fields of it come
\* before message i.
Trozos(ini, p, n) ==
  /\ ini \in [p .. n + 1 -> 0 .. Len(stream)]
  /\ ini[n + 1] = Len(stream)
  /\ \A i, j \in p .. n + 1 : i < j => ini[i] < ini[j]
  /\ \A i \in p .. n :
       /\ ini[i + 1] = ini[i] + Len(Escribe(enviados[i]))
       /\ \A a \in 1 .. Len(Escribe(enviados[i])) : stream[ini[i] + a] = Escribe(enviados[i])[a]

Corriente ==
  \E ini \in [Proxima .. Len(enviados) + 1 -> 0 .. Len(stream)] :
    Trozos(ini, Proxima, Len(enviados)) /\ ini[Proxima] = Len(guion)

Invariante == Tipos /\ Recepcion /\ Corriente

-----------------------------------------------------------------------------
(* The stream *)

LEMMA MismaConexion ==
  ASSUME conexion' = conexion
  PROVE  \A c : Escribe(c)' = Escribe(c) /\ Lee(c)' = Lee(c)
BY DEF Escribe, Lee

LEMMA Largos ==
  ASSUME Tipos
  PROVE  /\ Len(enviados) \in Nat /\ Len(entregados) \in Nat /\ Len(stream) \in Nat
         /\ Len(guion) \in Nat /\ Proxima \in Nat
         /\ \A i \in 1 .. Len(enviados) : enviados[i] \in Codigos(conexion)
<1>1. /\ Len(enviados) \in Nat /\ Len(entregados) \in Nat /\ Len(stream) \in Nat /\ Len(guion) \in Nat
  BY LenProperties DEF Tipos
<1>2. Proxima \in Nat
  BY <1>1 DEF Proxima
<1>3. \A i \in 1 .. Len(enviados) : enviados[i] \in Codigos(conexion)
  BY ElementOfSeq DEF Tipos
<1> QED
  BY <1>1, <1>2, <1>3

LEMMA LargoEscrito ==
  ASSUME Tipos, NEW i \in 1 .. Len(enviados)
  PROVE  /\ Len(Escribe(enviados[i])) \in Nat /\ Len(Escribe(enviados[i])) > 0
         /\ Concuerda(Escribe(enviados[i]), Lee(enviados[i]), enviados[i])
<1>1. Concuerda(Escribe(enviados[i]), Lee(enviados[i]), enviados[i])
  BY Largos, Acordado DEF Tipos
<1>2. Lee(enviados[i]) \in Seq(Pasos) /\ Len(Escribe(enviados[i])) = 1 + Len(Lee(enviados[i]))
  BY <1>1 DEF Concuerda
<1>3. Len(Lee(enviados[i])) \in Nat
  BY <1>2, LenProperties
<1> QED
  BY <1>1, <1>2, <1>3

\* The first field of the stream is read: what messages q to n have to be is where it was.
LEMMA Saca ==
  ASSUME Tipos, stream' = Tail(stream), Len(stream) > 0, UNCHANGED <<conexion, enviados>>,
         NEW p \in Nat \ {0}, NEW n \in Nat, n = Len(enviados), NEW ini, Trozos(ini, p, n), NEW q \in p .. n + 1, ini[q] >= 1
  PROVE  \E x : Trozos(x, q, n)' /\ x[q] = ini[q] - 1
<1>1. /\ Len(stream) \in Nat /\ Len(stream') = Len(stream) - 1
      /\ \A a \in 1 .. Len(stream) - 1 : stream'[a] = stream[a + 1]
  BY Largos, HeadTailProperties DEF Tipos
<1>0. PICK x : x = [i \in q .. n + 1 |-> ini[i] - 1]
  OBVIOUS
<1>2. \A i \in p .. n + 1 : ini[i] \in Int /\ 0 <= ini[i] /\ ini[i] <= Len(stream)
  <2>1. \A i \in p .. n + 1 : ini[i] \in 0 .. Len(stream)
    BY DEF Trozos
  <2> QED
    BY <1>1, <2>1
<1>3. \A i \in q .. n + 1 : i \in p .. n + 1 /\ ini[i] >= 1
  <2> TAKE i \in q .. n + 1
  <2>1. i \in p .. n + 1 /\ (i = q \/ q < i)
    OBVIOUS
  <2>2. q < i => ini[q] < ini[i]
    BY <2>1 DEF Trozos
  <2> QED
    BY <1>2, <2>1, <2>2
<1>4. x \in [q .. n + 1 -> 0 .. Len(stream')]
  <2>1. \A i \in q .. n + 1 : ini[i] - 1 \in 0 .. Len(stream')
    BY <1>1, <1>2, <1>3
  <2> QED
    BY <1>0, <2>1
<1>5. /\ \A i \in q .. n + 1 : x[i] = ini[i] - 1
      /\ q \in q .. n + 1 /\ n + 1 \in q .. n + 1
  BY <1>0
<1>6. x[n + 1] = Len(stream') /\ x[q] = ini[q] - 1
  BY <1>1, <1>5 DEF Trozos
<1>7. \A i, j \in q .. n + 1 : i < j => x[i] < x[j]
  <2> TAKE i, j \in q .. n + 1
  <2> HAVE i < j
  <2>1. ini[i] < ini[j]
    BY <1>3 DEF Trozos
  <2> QED
    BY <1>2, <1>3, <1>5, <2>1, SMTT(40)
<1>8. ASSUME NEW i \in q .. n
      PROVE  /\ x[i + 1] = x[i] + Len(Escribe(enviados[i]))
             /\ \A a \in 1 .. Len(Escribe(enviados[i])) : stream'[x[i] + a] = Escribe(enviados[i])[a]
  <2>1. i \in p .. n /\ i \in q .. n + 1 /\ i + 1 \in q .. n + 1
    OBVIOUS
  <2>2. /\ ini[i + 1] = ini[i] + Len(Escribe(enviados[i]))
        /\ \A a \in 1 .. Len(Escribe(enviados[i])) : stream[ini[i] + a] = Escribe(enviados[i])[a]
    BY <2>1 DEF Trozos
  <2>3. PICK l : l = Len(Escribe(enviados[i]))
    OBVIOUS
  <2>4. l \in Nat
    BY <2>1, <2>3, Largos, LargoEscrito
  <2>5. x[i + 1] = x[i] + l
    <3>1. PICK u \in Int, v \in Int : u = ini[i] /\ v = ini[i + 1]
      BY <1>2, <1>3, <2>1
    <3>2. x[i] = u - 1 /\ x[i + 1] = v - 1
      BY <1>5, <2>1, <3>1
    <3>3. v = u + l
      BY <2>2, <2>3, <3>1
    <3> QED
      BY <2>4, <3>2, <3>3
  <2>6. ASSUME NEW a \in 1 .. l PROVE stream'[x[i] + a] = Escribe(enviados[i])[a]
    <3>1. x[i] + a \in 1 .. Len(stream) - 1 /\ x[i] + a + 1 = ini[i] + a
      <4>1. ini[i] \in Int /\ ini[i] >= 1 /\ x[i] = ini[i] - 1
        BY <1>2, <1>3, <1>5, <2>1
      <4>2. ini[i + 1] <= Len(stream) /\ ini[i + 1] = ini[i] + l
        BY <1>2, <1>3, <2>1, <2>2, <2>3
      <4>3. PICK u \in Int : u = ini[i]
        BY <4>1
      <4>4. PICK largo \in Nat : largo = Len(stream)
        BY <1>1
      <4>5. u >= 1 /\ u + l <= largo /\ x[i] = u - 1
        BY <4>1, <4>2, <4>3, <4>4
      <4>6. u - 1 + a \in 1 .. largo - 1 /\ u - 1 + a + 1 = u + a
        BY <2>4, <4>5
      <4> QED
        BY <4>3, <4>4, <4>5, <4>6
    <3>2. stream'[x[i] + a] = stream[x[i] + a + 1]
      BY <1>1, <3>1
    <3> QED
      BY <2>2, <2>3, <3>1, <3>2
  <2> QED
    BY <2>3, <2>5, <2>6
<1>9. \A i \in q .. n : Escribe(enviados[i])' = Escribe(enviados[i])
  BY DEF Escribe
<1>10. Trozos(x, q, n)'
  <2>1. \A i \in q .. n : (Escribe(enviados[i]))' = Escribe(enviados[i])
    BY <1>9
  <2>2. \A i \in q .. n :
          /\ x[i + 1] = x[i] + Len(Escribe(enviados[i])')
          /\ \A a \in 1 .. Len(Escribe(enviados[i])') : stream'[x[i] + a] = Escribe(enviados[i])'[a]
    <3> TAKE i \in q .. n
    <3>1. PICK e : e = Escribe(enviados[i]) /\ e = Escribe(enviados[i])'
      BY <2>1
    <3>2. x[i + 1] = x[i] + Len(e) /\ \A a \in 1 .. Len(e) : stream'[x[i] + a] = e[a]
      <4>1. e = Escribe(enviados[i])
        BY <3>1
      <4> QED
        BY <1>8, <4>1
    <3>3. e = Escribe(enviados[i])'
      BY <3>1
    <3> QED
      BY <3>2, <3>3
  <2> QED
    BY <1>4, <1>6, <1>7, <2>2 DEF Trozos
<1> QED
  BY <1>6, <1>10

LEMMA EsCorriente ==
  ASSUME NEW x, NEW q, NEW n, Trozos(x, q, n)', Proxima' = q, Len(enviados)' = n, x[q] = Len(guion)'
  PROVE  Corriente'
BY DEF Corriente, Trozos

-----------------------------------------------------------------------------
(* The steps *)

LEMMA PasoEnviar ==
  ASSUME Invariante, NEW codigo \in Codigos(conexion), Enviar(codigo)
  PROVE  Invariante'
<1>1. Tipos /\ Recepcion
  BY DEF Invariante
<1>2. PICK p \in Nat, n \in Nat, l \in Nat : p = Proxima /\ n = Len(enviados) /\ l = Len(stream)
  BY <1>1, Largos
<1>3. PICK ini : Trozos(ini, p, n) /\ ini[p] = Len(guion)
  BY <1>2 DEF Invariante, Corriente
<1>4. PICK e : e = Escribe(codigo)
  OBVIOUS
<1>5. /\ ~ cerrado /\ enviados' = Append(enviados, codigo) /\ stream' = stream \o e
      /\ UNCHANGED <<conexion, llegado, guion, leyendo, entregados, corta, confundido, cerrado, fin>>
  BY <1>4 DEF Enviar
<1>6. PICK m \in Nat : m = Len(e) /\ m > 0 /\ e \in Seq(Palabras)
  <2>1. Concuerda(Escribe(codigo), Lee(codigo), codigo)
    BY <1>1, Acordado DEF Tipos
  <2>2. Len(Lee(codigo)) \in Nat
    BY <2>1, LenProperties DEF Concuerda
  <2> QED
    BY <1>4, <2>1, <2>2 DEF Concuerda
<1>7. /\ stream' \in Seq(Palabras) /\ Len(stream') = l + m
      /\ \A a \in 1 .. l : stream'[a] = stream[a]
      /\ \A a \in 1 .. m : stream'[a + l] = e[a]
  BY <1>1, <1>2, <1>5, <1>6, Junta DEF Tipos
<1>8. /\ enviados' \in Seq(Codigos(conexion)) /\ Len(enviados') = n + 1
      /\ enviados'[n + 1] = codigo /\ \A i \in 1 .. n : enviados'[i] = enviados[i]
  BY <1>1, <1>2, <1>5, AppendProperties DEF Tipos
<1>9. p <= n + 1 /\ p >= 1 /\ Proxima' = p
  BY <1>1, <1>2, <1>5, Largos DEF Recepcion, Proxima
<1>10. \A i \in p .. n + 1 : ini[i] \in 0 .. l
  BY <1>2, <1>3 DEF Trozos
<1>11. PICK x : x = [i \in p .. n + 2 |-> IF i = n + 2 THEN l + m ELSE ini[i]]
  OBVIOUS
<1>12. x \in [p .. n + 2 -> 0 .. l + m]
  <2>1. \A i \in p .. n + 2 : (IF i = n + 2 THEN l + m ELSE ini[i]) \in 0 .. l + m
    <3> TAKE i \in p .. n + 2
    <3>1. i # n + 2 => i \in p .. n + 1
      OBVIOUS
    <3>2. i # n + 2 => ini[i] \in 0 .. l + m
      BY <1>10, <3>1
    <3> QED
      BY <3>2
  <2> QED
    BY <1>11, <2>1
<1>13. /\ x[n + 2] = l + m /\ \A i \in p .. n + 1 : x[i] = ini[i] /\ i \in p .. n + 2
       /\ \A i \in p .. n + 2 : i = n + 2 \/ i \in p .. n + 1
  BY <1>9, <1>11
<1>14. \A i, j \in p .. n + 2 : i < j => x[i] < x[j]
  <2> TAKE i, j \in p .. n + 2
  <2> HAVE i < j
  <2>1. i \in p .. n + 1
    OBVIOUS
  <2>2. CASE j = n + 2
    <3>1. PICK u \in 0 .. l : x[i] = u
      BY <1>10, <1>13, <2>1
    <3> QED
      BY <1>6, <1>13, <2>2, <3>1
  <2>3. CASE j # n + 2
    <3>1. j \in p .. n + 1
      BY <2>3
    <3>2. ini[i] < ini[j]
      BY <1>3, <2>1, <3>1 DEF Trozos
    <3> QED
      BY <1>13, <2>1, <3>1, <3>2
  <2> QED
    BY <2>2, <2>3
<1>15. ASSUME NEW i \in p .. n + 1
       PROVE  \E f : /\ f = Escribe(enviados[i])' /\ x[i + 1] = x[i] + Len(f)
                     /\ \A a \in 1 .. Len(f) : stream'[x[i] + a] = f[a]
  <2>1. CASE i = n + 1
    <3>1. enviados'[i] = codigo
      BY <1>8, <2>1
    <3>2. e = Escribe(enviados[i])'
      BY <1>4, <1>5, <3>1 DEF Escribe
    <3>3. x[i] = l /\ x[i + 1] = l + m
      <4>1. i + 1 = n + 2 /\ i \in p .. n + 1 /\ ini[n + 1] = l
        BY <1>2, <1>3, <2>1 DEF Trozos
      <4> QED
        BY <1>13, <2>1, <4>1
    <3>4. \A a \in 1 .. m : l + a = a + l
      OBVIOUS
    <3> QED
      BY <1>6, <1>7, <3>2, <3>3, <3>4
  <2>2. CASE i # n + 1
    <3>1. i \in p .. n /\ i + 1 \in p .. n + 1 /\ i \in 1 .. n
      BY <1>9, <2>2
    <3>2. PICK f : f = Escribe(enviados[i])
      OBVIOUS
    <3>3. ini[i + 1] = ini[i] + Len(f) /\ \A a \in 1 .. Len(f) : stream[ini[i] + a] = f[a]
      BY <1>3, <3>1, <3>2 DEF Trozos
    <3>4. f = Escribe(enviados[i])'
      BY <1>5, <1>8, <3>1, <3>2 DEF Escribe
    <3>5. Len(f) \in Nat
      BY <1>1, <1>2, <3>1, <3>2, LargoEscrito
    <3>6. ASSUME NEW a \in 1 .. Len(f) PROVE stream'[x[i] + a] = f[a]
      <4>1. PICK u \in 0 .. l, v \in 0 .. l : u = ini[i] /\ v = ini[i + 1]
        BY <1>10, <3>1
      <4>2. u + a \in 1 .. l
        BY <3>3, <3>5, <4>1, SMTT(40)
      <4>3. x[i] = u /\ stream[u + a] = f[a]
        BY <1>13, <3>3, <4>1
      <4> QED
        BY <1>7, <4>2, <4>3
    <3>7. x[i + 1] = x[i] + Len(f)
      BY <1>13, <3>1, <3>3
    <3> QED
      BY <3>4, <3>6, <3>7
  <2> QED
    BY <2>1, <2>2
<1>16. PICK k \in Nat : k = n + 1 /\ k + 1 = n + 2
  OBVIOUS
<1>17. Trozos(x, p, k)'
  <2>1. ASSUME NEW i \in p .. k
        PROVE  /\ x[i + 1] = x[i] + Len(Escribe(enviados[i])')
               /\ \A a \in 1 .. Len(Escribe(enviados[i])') : stream'[x[i] + a] = Escribe(enviados[i])'[a]
    <3>1. PICK f : /\ f = Escribe(enviados[i])' /\ x[i + 1] = x[i] + Len(f)
                   /\ \A a \in 1 .. Len(f) : stream'[x[i] + a] = f[a]
      BY <1>15, <1>16
    <3> QED
      BY <3>1
  <2>2. /\ x \in [p .. k + 1 -> 0 .. Len(stream')] /\ x[k + 1] = Len(stream')
        /\ \A i, j \in p .. k + 1 : i < j => x[i] < x[j]
    BY <1>7, <1>12, <1>13, <1>14, <1>16
  <2> QED
    BY <2>1, <2>2 DEF Trozos
<1>18. Corriente'
  <2>1. x[p] = Len(guion)'
    BY <1>3, <1>5, <1>9, <1>13
  <2>2. Len(enviados)' = k
    BY <1>8, <1>16
  <2> QED
    BY <1>9, <1>17, <2>1, <2>2, EsCorriente
<1>19. Tipos'
  <2>1. llegado' \in 0 .. 2 * Len(stream')
    <3>1. llegado \in 0 .. 2 * l
      BY <1>1, <1>2 DEF Tipos
    <3> QED
      BY <1>5, <1>7, <3>1
  <2>2. Codigos(conexion)' = Codigos(conexion)
    BY <1>5
  <2> QED
    BY <1>1, <1>5, <1>7, <1>8, <2>1, <2>2 DEF Tipos
<1>20. Recepcion'
  <2>1. Proxima' <= Len(enviados') + 1
    BY <1>8, <1>9
  <2>2. Len(entregados) \in Nat /\ (leyendo # "nada" => Len(entregados) + 1 \in 1 .. n)
        /\ Len(entregados) <= n
    BY <1>1, <1>2, <1>9, Largos DEF Proxima
  <2>3. \A i \in 1 .. Len(entregados) : entregados[i] = enviados'[i]
    BY <1>1, <1>8, <2>2 DEF Recepcion
  <2>4. leyendo # "nada" => enviados'[Len(entregados) + 1] = leyendo
    BY <1>1, <1>8, <2>2 DEF Recepcion
  <2>5. \A a \in 1 .. Len(guion) : stream'[a] = guion[a].campo
    <3>1. Len(guion) \in 0 .. l
      BY <1>3, <1>9, <1>10
    <3> QED
      BY <1>1, <1>7, <3>1 DEF Recepcion
  <2>6. ~ fin
    BY <1>1, <1>5 DEF Recepcion
  <2> QED
    BY <1>1, <1>5, <2>1, <2>3, <2>4, <2>5, <2>6 DEF Recepcion
<1> QED
  BY <1>18, <1>19, <1>20 DEF Invariante

LEMMA MismosTrozos ==
  ASSUME NEW ini, NEW p, NEW n, Trozos(ini, p, n), UNCHANGED <<conexion, enviados, stream>>
  PROVE  Trozos(ini, p, n)'
<1>1. ASSUME NEW i \in p .. n
      PROVE  /\ ini[i + 1] = ini[i] + Len(Escribe(enviados[i])')
             /\ \A a \in 1 .. Len(Escribe(enviados[i])') : stream'[ini[i] + a] = Escribe(enviados[i])'[a]
  <2>1. PICK e : e = Escribe(enviados[i])
    OBVIOUS
  <2>2. ini[i + 1] = ini[i] + Len(e) /\ \A a \in 1 .. Len(e) : stream'[ini[i] + a] = e[a]
    BY <2>1 DEF Trozos
  <2>3. e = Escribe(enviados[i])'
    BY <2>1 DEF Escribe
  <2> QED
    BY <2>2, <2>3
<1>2. /\ ini \in [p .. n + 1 -> 0 .. Len(stream')] /\ ini[n + 1] = Len(stream')
      /\ \A i, j \in p .. n + 1 : i < j => ini[i] < ini[j]
  BY DEF Trozos
<1> QED
  BY <1>1, <1>2 DEF Trozos

\* Between two messages the next op_code is at the head of the stream, with what its
\* receiver reads after it.
LEMMA Cabeza ==
  ASSUME Invariante, leyendo = "nada", llegado >= 2
  PROVE  /\ Len(entregados) + 1 \in 1 .. Len(enviados)
         /\ Head(stream) = enviados[Len(entregados) + 1]
         /\ Concuerda(Escribe(Head(stream)), Lee(Head(stream)), Head(stream))
         /\ \A a \in 1 .. Len(Lee(Head(stream))) : stream[a + 1] = Lee(Head(stream))[a].campo
         /\ \E ini : /\ Trozos(ini, Len(entregados) + 1, Len(enviados))
                     /\ ini[Len(entregados) + 2] = 1 + Len(Lee(Head(stream)))
<1>1. Tipos /\ Recepcion
  BY DEF Invariante
<1>2. PICK p \in Nat, n \in Nat, l \in Nat : p = Len(entregados) + 1 /\ n = Len(enviados) /\ l = Len(stream)
  BY <1>1, Largos
<1>3. /\ Proxima = p /\ guion = <<>> /\ p <= n + 1 /\ p >= 1
  BY <1>1, <1>2, Largos DEF Proxima, Recepcion
<1>4. PICK ini : Trozos(ini, p, n) /\ ini[p] = 0
  BY <1>2, <1>3 DEF Invariante, Corriente
<1>5. l > 0
  BY <1>1, <1>2 DEF Tipos
<1>6. p \in p .. n /\ p \in 1 .. n
  <2>1. p # n + 1
    <3> SUFFICES ASSUME p = n + 1 PROVE FALSE
      OBVIOUS
    <3>1. ini[n + 1] = l
      BY <1>2, <1>4 DEF Trozos
    <3> QED
      BY <1>4, <1>5, <3>1
  <2> QED
    BY <1>3, <2>1
<1>7. PICK c : c = enviados[p]
  OBVIOUS
<1>8. PICK e, g : e = Escribe(c) /\ g = Lee(c)
  OBVIOUS
<1>9. /\ Concuerda(e, g, c) /\ Len(e) \in Nat /\ Len(e) > 0
  BY <1>1, <1>2, <1>6, <1>7, <1>8, LargoEscrito
<1>10. /\ ini[p + 1] = ini[p] + Len(e)
       /\ \A a \in 1 .. Len(e) : stream[ini[p] + a] = e[a]
  BY <1>4, <1>6, <1>7, <1>8 DEF Trozos
<1>11. /\ ini[p + 1] = Len(e)
       /\ \A a \in 1 .. Len(e) : stream[a] = e[a]
  BY <1>4, <1>9, <1>10
<1>12. Len(g) \in Nat /\ Len(e) = 1 + Len(g) /\ e[1] = c /\ \A a \in 1 .. Len(g) : g[a].campo = e[a + 1]
  BY <1>9, LenProperties DEF Concuerda
<1>13. Head(stream) = c
  <2>1. stream[1] = c
    BY <1>11, <1>12
  <2> QED
    BY <1>1, <1>2, <1>5, <2>1, HeadTailProperties DEF Tipos
<1>14. \A a \in 1 .. Len(g) : stream[a + 1] = g[a].campo
  <2> TAKE a \in 1 .. Len(g)
  <2>1. a + 1 \in 1 .. Len(e)
    BY <1>12
  <2> QED
    BY <1>11, <1>12, <2>1
<1>15. p + 1 = Len(entregados) + 2
  BY <1>1, <1>2, Largos
<1> QED
  BY <1>2, <1>4, <1>6, <1>7, <1>8, <1>9, <1>11, <1>12, <1>13, <1>14, <1>15

LEMMA PasoRecibirOperacion ==
  ASSUME Invariante, RecibirOperacion
  PROVE  Invariante'
<1>1. Tipos /\ Recepcion /\ leyendo = "nada" /\ llegado >= 2 /\ ~ fin
  BY DEF Invariante, RecibirOperacion, Sano
<1>2. PICK k \in Nat, n \in Nat, l \in Nat : k = Len(entregados) /\ n = Len(enviados) /\ l = Len(stream)
  BY <1>1, Largos
<1>3. PICK c, g : c = Head(stream) /\ g = Lee(c)
  OBVIOUS
<1>4. /\ k + 1 \in 1 .. n /\ c = enviados[k + 1]
      /\ Concuerda(Escribe(c), g, c)
      /\ \A a \in 1 .. Len(g) : stream[a + 1] = g[a].campo
  BY <1>1, <1>2, <1>3, Cabeza
<1>5. PICK ini : Trozos(ini, k + 1, n) /\ ini[k + 2] = 1 + Len(g)
  BY <1>1, <1>2, <1>3, Cabeza
<1>6. c \in Codigos(conexion) /\ c # "nada"
  <2>1. c \in Codigos(conexion)
    BY <1>1, <1>2, <1>4, Largos
  <2> QED
    BY <1>1, <2>1 DEF Tipos, Conexiones, Codigos, Motivos
<1>7. /\ stream' = Tail(stream) /\ llegado' = llegado - 2 /\ guion' = g /\ confundido' = confundido
      /\ \/ g = <<>> /\ entregados' = Append(entregados, c) /\ leyendo' = leyendo
         \/ g # <<>> /\ leyendo' = c /\ entregados' = entregados
      /\ UNCHANGED <<conexion, enviados, corta, cerrado, fin>>
  BY <1>3, <1>6 DEF RecibirOperacion
<1>8. g \in Seq(Pasos) /\ Len(g) \in Nat
  BY <1>4, LenProperties DEF Concuerda
<1>9. l > 0 /\ llegado \in 2 .. 2 * l
  BY <1>1, <1>2 DEF Tipos
<1>10. /\ stream' \in Seq(Palabras) /\ Len(stream') = l - 1
       /\ \A a \in 1 .. l - 1 : stream'[a] = stream[a + 1]
  BY <1>1, <1>2, <1>7, <1>9, HeadTailProperties DEF Tipos
<1>11. /\ entregados' \in Seq(Codigos(conexion))
       /\ \/ Len(entregados') = k + 1 /\ leyendo' = "nada" /\ g = <<>> /\ entregados'[k + 1] = c
          \/ Len(entregados') = k /\ leyendo' = c /\ g # <<>>
       /\ \A i \in 1 .. k : entregados'[i] = entregados[i]
  <2>1. PICK z : z = Append(entregados, c)
    OBVIOUS
  <2>2. /\ z \in Seq(Codigos(conexion)) /\ Len(z) = k + 1 /\ z[k + 1] = c
        /\ \A i \in 1 .. k : z[i] = entregados[i]
    BY <1>1, <1>2, <1>6, <2>1, AppendProperties DEF Tipos
  <2>3. CASE g = <<>>
    BY <1>1, <1>7, <2>1, <2>2, <2>3
  <2>4. CASE g # <<>>
    BY <1>1, <1>2, <1>7, <2>4 DEF Tipos
  <2> QED
    BY <2>3, <2>4
<1>12. Proxima' = k + 2
  BY <1>2, <1>6, <1>11 DEF Proxima
<1>13. PICK x : Trozos(x, k + 2, n)' /\ x[k + 2] = Len(g)
  <2>1. k + 2 \in k + 1 .. n + 1 /\ k + 1 \in Nat \ {0} /\ ini[k + 2] >= 1
    BY <1>4, <1>5, <1>8
  <2>2. \E x : Trozos(x, k + 2, n)' /\ x[k + 2] = ini[k + 2] - 1
    <3>1. PICK p \in Nat \ {0}, q \in Nat : p = k + 1 /\ q = k + 2
      OBVIOUS
    <3>2. Trozos(ini, p, n) /\ q \in p .. n + 1 /\ ini[q] >= 1 /\ Len(stream) > 0
      BY <1>2, <1>5, <1>9, <2>1, <3>1
    <3>3. \E x : Trozos(x, q, n)' /\ x[q] = ini[q] - 1
      BY <1>1, <1>2, <1>7, <3>2, Saca
    <3> QED
      BY <3>1, <3>3
  <2>3. ini[k + 2] - 1 = Len(g)
    BY <1>5, <1>8
  <2> QED
    BY <2>2, <2>3
<1>14. Corriente'
  BY <1>2, <1>7, <1>12, <1>13, EsCorriente
<1>15. Tipos'
  <2>1. llegado' \in 0 .. 2 * Len(stream')
    BY <1>7, <1>9, <1>10
  <2>2. Codigos(conexion)' = Codigos(conexion)
    BY <1>7
  <2>3. leyendo' \in Codigos(conexion) \cup {"nada"}
    BY <1>6, <1>11
  <2> QED
    BY <1>1, <1>7, <1>8, <1>10, <1>11, <2>1, <2>2, <2>3 DEF Tipos
<1>16. Recepcion'
  <2>1. Proxima' <= Len(enviados') + 1
    BY <1>2, <1>4, <1>7, <1>12
  <2>2. \A i \in 1 .. Len(entregados') : entregados'[i] = enviados[i]
    <3>1. \A i \in 1 .. k : entregados'[i] = enviados[i]
      BY <1>1, <1>2, <1>11 DEF Recepcion
    <3> QED
      BY <1>4, <1>11, <3>1
  <2>3. \A a \in 1 .. Len(g) : stream'[a] = g[a].campo
    <3>1. Len(g) <= l - 1
      <4>1. x[k + 2] \in 0 .. l - 1
        <5>1. k + 2 \in k + 2 .. n + 1
          BY <1>4
        <5> QED
          BY <1>10, <1>13, <5>1 DEF Trozos
      <4> QED
        BY <1>13, <4>1
    <3> QED
      BY <1>4, <1>8, <1>10, <3>1
  <2>4. leyendo' # "nada" => enviados[Len(entregados') + 1] = leyendo'
    BY <1>4, <1>11
  <2>5. leyendo' = "nada" <=> g = <<>>
    BY <1>6, <1>11
  <2> QED
    BY <1>1, <1>7, <2>1, <2>2, <2>3, <2>4, <2>5 DEF Recepcion
<1> QED
  BY <1>14, <1>15, <1>16 DEF Invariante

LEMMA PasoRecibirCampo ==
  ASSUME Invariante, RecibirCampo
  PROVE  Invariante'
<1>1. Tipos /\ Recepcion /\ leyendo # "nada" /\ ~ fin
  BY DEF Invariante, RecibirCampo, Sano
<1>2. PICK k \in Nat, n \in Nat, l \in Nat, m \in Nat :
        k = Len(entregados) /\ n = Len(enviados) /\ l = Len(stream) /\ m = Len(guion)
  BY <1>1, Largos
<1>3. Proxima = k + 2 /\ k + 2 <= n + 1
  BY <1>1, <1>2 DEF Proxima, Recepcion
<1>4. PICK ini : Trozos(ini, k + 2, n) /\ ini[k + 2] = m
  BY <1>2, <1>3 DEF Invariante, Corriente
<1>5. m > 0
  <2>1. guion # <<>> /\ guion \in Seq(Pasos)
    BY <1>1 DEF Recepcion, Tipos
  <2> QED
    BY <1>2, <2>1, EmptySeq
<1>6. CASE llegado >= 2
  <2>1. l > 0 /\ llegado \in 2 .. 2 * l
    BY <1>1, <1>2, <1>6 DEF Tipos
  <2>2. /\ stream' = Tail(stream) /\ llegado' = llegado - 2
        /\ confundido' = (Head(stream) # Head(guion).campo)
        /\ guion' = Tail(guion)
        /\ IF m = 1 THEN entregados' = Append(entregados, leyendo) /\ leyendo' = "nada"
                    ELSE UNCHANGED <<entregados, leyendo>>
        /\ UNCHANGED <<conexion, enviados, corta, cerrado, fin>>
    BY <1>2, <1>6 DEF RecibirCampo, Entregar
  <2>3. /\ stream' \in Seq(Palabras) /\ Len(stream') = l - 1 /\ Head(stream) = stream[1]
        /\ \A a \in 1 .. l - 1 : stream'[a] = stream[a + 1]
    BY <1>1, <1>2, <2>1, <2>2, HeadTailProperties DEF Tipos
  <2>4. /\ guion' \in Seq(Pasos) /\ Len(guion') = m - 1 /\ Head(guion) = guion[1]
        /\ \A a \in 1 .. m - 1 : guion'[a] = guion[a + 1]
    BY <1>1, <1>2, <1>5, <2>2, HeadTailProperties DEF Tipos
  <2>5. confundido' = FALSE
    <3>1. stream[1] = guion[1].campo
      BY <1>1, <1>2, <1>5 DEF Recepcion
    <3> QED
      BY <2>2, <2>3, <2>4, <3>1
  <2>6. k + 1 \in 1 .. n /\ enviados[k + 1] = leyendo /\ leyendo \in Codigos(conexion)
    BY <1>1, <1>2, <1>3 DEF Recepcion, Tipos
  <2>7. /\ entregados' \in Seq(Codigos(conexion))
        /\ \/ m = 1 /\ Len(entregados') = k + 1 /\ leyendo' = "nada" /\ entregados'[k + 1] = leyendo
           \/ m # 1 /\ Len(entregados') = k /\ leyendo' = leyendo
        /\ \A i \in 1 .. k : entregados'[i] = entregados[i]
    <3>1. PICK z : z = Append(entregados, leyendo)
      OBVIOUS
    <3>2. /\ z \in Seq(Codigos(conexion)) /\ Len(z) = k + 1 /\ z[k + 1] = leyendo
          /\ \A i \in 1 .. k : z[i] = entregados[i]
      BY <1>1, <1>2, <2>6, <3>1, AppendProperties DEF Tipos
    <3>3. CASE m = 1
      <4>1. entregados' = z /\ leyendo' = "nada"
        BY <2>2, <3>1, <3>3
      <4> QED
        BY <3>2, <3>3, <4>1
    <3>4. CASE m # 1
      BY <1>1, <1>2, <2>2, <3>4 DEF Tipos
    <3> QED
      BY <3>3, <3>4
  <2>8. Proxima' = k + 2
    BY <1>1, <1>2, <2>7 DEF Proxima
  <2>9. PICK x : Trozos(x, k + 2, n)' /\ x[k + 2] = m - 1
    <3>1. k + 2 \in k + 2 .. n + 1 /\ k + 2 \in Nat \ {0} /\ ini[k + 2] >= 1
      BY <1>3, <1>4, <1>5
    <3>2. \E x : Trozos(x, k + 2, n)' /\ x[k + 2] = ini[k + 2] - 1
      BY <1>1, <1>2, <1>4, <2>1, <2>2, <3>1, Saca, SMTT(40)
    <3> QED
      BY <1>4, <3>2
  <2>10. Corriente'
    BY <1>2, <2>2, <2>4, <2>8, <2>9, EsCorriente
  <2>11. Tipos'
    <3>1. llegado' \in 0 .. 2 * Len(stream')
      BY <2>1, <2>2, <2>3
    <3>2. Codigos(conexion)' = Codigos(conexion)
      BY <2>2
    <3>3. leyendo' \in Codigos(conexion) \cup {"nada"}
      BY <2>6, <2>7
    <3> QED
      BY <1>1, <2>2, <2>3, <2>4, <2>5, <2>7, <3>1, <3>2, <3>3 DEF Tipos
  <2>12. Recepcion'
    <3>1. Proxima' <= Len(enviados') + 1
      BY <1>2, <1>3, <2>2, <2>8
    <3>2. \A i \in 1 .. Len(entregados') : entregados'[i] = enviados[i]
      <4>1. \A i \in 1 .. k : entregados'[i] = enviados[i]
        BY <1>1, <1>2, <2>7 DEF Recepcion
      <4> QED
        BY <2>6, <2>7, <4>1
    <3>3. \A a \in 1 .. Len(guion') : stream'[a] = guion'[a].campo
      <4> SUFFICES ASSUME NEW a \in 1 .. m - 1 PROVE stream'[a] = guion'[a].campo
        BY <2>4
      <4>1. m <= l
        <5>1. ini[k + 2] \in 0 .. l
          <6>1. k + 2 \in k + 2 .. n + 1
            BY <1>3
          <6> QED
            BY <1>2, <1>4, <6>1 DEF Trozos
        <5> QED
          BY <1>4, <5>1
      <4>2. stream'[a] = stream[a + 1] /\ guion'[a] = guion[a + 1] /\ a + 1 \in 1 .. m
        BY <2>3, <2>4, <4>1
      <4> QED
        BY <1>1, <1>2, <4>2 DEF Recepcion
    <3>4. leyendo' # "nada" => enviados[Len(entregados') + 1] = leyendo'
      BY <2>6, <2>7
    <3>5. leyendo' = "nada" <=> guion' = <<>>
      <4>1. guion' = <<>> <=> Len(guion') = 0
        BY <2>4, EmptySeq
      <4> QED
        BY <1>1, <1>2, <2>4, <2>7, <4>1
    <3> QED
      BY <1>1, <2>2, <2>5, <3>1, <3>2, <3>3, <3>4, <3>5 DEF Recepcion
  <2> QED
    BY <2>10, <2>11, <2>12 DEF Invariante
<1>7. CASE ~ (llegado >= 2)
  <2>1. /\ corta' = TRUE
        /\ UNCHANGED <<stream, llegado, guion, leyendo, entregados, confundido, conexion, enviados, cerrado, fin>>
    BY <1>7 DEF RecibirCampo
  <2>2. Tipos' /\ Recepcion'
    BY <1>1, <2>1 DEF Tipos, Recepcion, Proxima
  <2>3. Corriente'
    <3>1. Trozos(ini, k + 2, n)'
      BY <1>4, <2>1, MismosTrozos
    <3>2. Proxima' = k + 2 /\ Len(enviados)' = n /\ ini[k + 2] = Len(guion)'
      BY <1>2, <1>3, <1>4, <2>1 DEF Proxima
    <3> QED
      BY <3>1, <3>2, EsCorriente
  <2> QED
    BY <2>2, <2>3 DEF Invariante
<1> QED
  BY <1>6, <1>7

\* A step that leaves the stream and what was read of it alone.
LEMMA PasoSinLeer ==
  ASSUME Invariante, UNCHANGED <<conexion, enviados, stream, guion, leyendo, entregados, confundido>>,
         llegado' \in 0 .. 2 * Len(stream), {corta, cerrado, fin}' \subseteq BOOLEAN,
         fin' => leyendo = "nada" /\ cerrado' /\ stream = <<>>
  PROVE  Invariante'
<1>1. Tipos /\ Recepcion
  BY DEF Invariante
<1>2. Tipos' /\ Recepcion'
  BY <1>1 DEF Tipos, Recepcion, Proxima
<1>3. PICK p, n : p = Proxima /\ n = Len(enviados) /\ p = Proxima' /\ n = Len(enviados)'
  BY DEF Proxima
<1>4. PICK ini : Trozos(ini, p, n) /\ ini[p] = Len(guion)
  BY <1>3 DEF Invariante, Corriente
<1>5. Trozos(ini, p, n)'
  BY <1>4, MismosTrozos
<1>6. Corriente'
  BY <1>3, <1>4, <1>5, EsCorriente
<1> QED
  BY <1>2, <1>6 DEF Invariante

LEMMA Comienza == Init => Invariante
<1> HAVE Init
<1>1. /\ conexion \in Conexiones /\ enviados = <<>> /\ entregados = <<>> /\ stream = <<>> /\ llegado = 0
      /\ guion = <<>> /\ leyendo = "nada" /\ corta = FALSE /\ confundido = FALSE /\ cerrado = FALSE
      /\ fin = FALSE
  BY DEF Init
<1>2. /\ Len(enviados) = 0 /\ Len(entregados) = 0 /\ Len(stream) = 0 /\ Len(guion) = 0
      /\ enviados \in Seq(Codigos(conexion)) /\ entregados \in Seq(Codigos(conexion))
      /\ stream \in Seq(Palabras) /\ guion \in Seq(Pasos)
  BY <1>1, EmptySeq
<1>3. Tipos
  <2>1. llegado \in 0 .. 2 * Len(stream)
    BY <1>1, <1>2
  <2>2. leyendo \in Codigos(conexion) \cup {"nada"} /\ {corta, confundido, cerrado, fin} \subseteq BOOLEAN
    BY <1>1
  <2> QED
    BY <1>1, <1>2, <2>1, <2>2 DEF Tipos
<1>4. Proxima = 1
  BY <1>1, <1>2 DEF Proxima
<1>5. Recepcion
  BY <1>1, <1>2, <1>4 DEF Recepcion
<1>6. Corriente
  <2>1. PICK x : x = [i \in 1 .. 1 |-> 0]
    OBVIOUS
  <2>2. x \in [1 .. 0 + 1 -> 0 .. 0] /\ x[1] = 0 /\ x[0 + 1] = 0
    BY <2>1
  <2>3. Trozos(x, 1, 0)
    BY <1>2, <2>2 DEF Trozos
  <2>4. x \in [Proxima .. Len(enviados) + 1 -> 0 .. Len(stream)]
    BY <1>2, <1>4, <2>2
  <2> QED
    BY <1>2, <1>4, <2>2, <2>3, <2>4 DEF Corriente
<1> QED
  BY <1>3, <1>5, <1>6 DEF Invariante

LEMMA Sigue == Invariante /\ [Next]_vars => Invariante'
<1> SUFFICES ASSUME Invariante, [Next]_vars PROVE Invariante'
  OBVIOUS
<1>1. Tipos /\ Recepcion
  BY DEF Invariante
<1>2. CASE \E codigo \in Codigos(conexion) : Enviar(codigo)
  BY <1>2, PasoEnviar
<1>3. CASE RecibirOperacion
  BY <1>3, PasoRecibirOperacion
<1>4. CASE RecibirCampo
  BY <1>4, PasoRecibirCampo
<1>5. CASE Cerrar
  BY <1>1, <1>5, PasoSinLeer DEF Cerrar, Tipos, Recepcion
<1>6. CASE Llegar
  <2>1. llegado + 1 \in 0 .. 2 * Len(stream)
    BY <1>1, <1>6, Largos DEF Llegar, Tipos
  <2> QED
    BY <1>1, <1>6, <2>1, PasoSinLeer DEF Llegar, Tipos, Recepcion
<1>7. CASE RecibirFin
  BY <1>1, <1>7, PasoSinLeer DEF RecibirFin, Tipos, Recepcion
<1>8. CASE UNCHANGED vars
  BY <1>1, <1>8, PasoSinLeer DEF vars, Tipos, Recepcion
<1> QED
  BY <1>2, <1>3, <1>4, <1>5, <1>6, <1>7, <1>8 DEF Next

LEMMA EsFiel == Invariante => Fiel
<1> HAVE Invariante
<1>1. Tipos /\ Recepcion
  BY DEF Invariante
<1>2. PICK k \in Nat, n \in Nat : k = Len(entregados) /\ n = Len(enviados)
  BY <1>1, Largos
<1>3. k <= n
  BY <1>1, <1>2 DEF Recepcion, Proxima
<1>4. IsPrefix(entregados, enviados)
  <2>1. \A i \in 1 .. k : entregados[i] = enviados[i] /\ i \in 1 .. n
    BY <1>1, <1>2, <1>3 DEF Recepcion
  <2>2. SubSeq(enviados, 1, k) = entregados
    BY <1>1, <1>2, <1>3, <2>1 DEF Tipos
  <2> QED
    BY <1>1, <1>2, <1>3, <2>1, <2>2, LenProperties DEF IsPrefix, Tipos
<1>5. ASSUME fin PROVE entregados = enviados
  <2>1. leyendo = "nada" /\ stream = <<>> /\ guion = <<>> /\ Proxima = k + 1
    BY <1>1, <1>2, <1>5 DEF Recepcion, Proxima
  <2>2. PICK ini : Trozos(ini, k + 1, n) /\ ini[k + 1] = 0
    BY <1>2, <2>1 DEF Invariante, Corriente
  <2>3. ini[n + 1] = 0
    BY <2>1, <2>2 DEF Trozos
  <2>4. k = n
    <3> SUFFICES ASSUME k # n PROVE FALSE
      OBVIOUS
    <3>1. k + 1 \in k + 1 .. n + 1 /\ n + 1 \in k + 1 .. n + 1 /\ k + 1 < n + 1
      BY <1>3
    <3>2. ini[k + 1] < ini[n + 1]
      BY <2>2, <3>1 DEF Trozos
    <3> QED
      BY <2>2, <2>3, <3>2
  <2>5. entregados \in Seq(Codigos(conexion)) /\ enviados \in Seq(Codigos(conexion))
    BY <1>1 DEF Tipos
  <2>6. \A i \in 1 .. n : entregados[i] = enviados[i]
    BY <1>1, <1>2, <2>4 DEF Recepcion
  <2> QED
    BY <1>2, <2>4, <2>5, <2>6, SeqEqual
<1> QED
  BY <1>1, <1>4, <1>5 DEF Fiel, Recepcion

-----------------------------------------------------------------------------
(* The theorems *)

\* What is read is what was sent, message after message, wherever TCP cuts the stream,
\* until a recv is cut short (the receivers of communication.c).
THEOREM ComunicacionFiel == Spec => []Fiel
<1>1. Spec => []Invariante
  BY Comienza, Sigue, PTL DEF Spec
<1> QED
  BY <1>1, EsFiel, PTL
=============================================================================
