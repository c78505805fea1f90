\* Two pools that are created, used and closed at the same time; buffers that
\* fit exactly, that leave padding and that do not fit; descriptors run out.
CONSTANTS
  Pool = {s1, s2}
  Sizes = {0, 5}
  Dims = {0, 1, 3}
  Align = 4
  MaxFD = 2
  MaxBuffers = 2
  NoFile = NoFile
  Other = Other
SPECIFICATION Spec
SYMMETRY Symmetry
INVARIANTS TypeOK BuffersDisjoint DescriptorsOwned  MappedMemoryBacked
