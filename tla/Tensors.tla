------------------------------- MODULE Tensors -------------------------------
(***************************************************************************)
(* Shapes, strides and the facts of one dense tensor value (tensor.rs,     *)
(* operation.rs), with the integer width of the code as a bound.           *)
(*                                                                         *)
(* A shape is a sequence of dimensions, an axis is an index of it (from 1  *)
(* where the code counts from 0), and an element offset counts from 0.     *)
(***************************************************************************)
EXTENDS Integers, Sequences, FiniteSets, SequencesExt

CONSTANTS
    MaxWord        \* the largest u64 (and usize): every checked operation stays below it

ASSUME MaxWordAssumption == MaxWord \in Nat \ {0}

Contiguous == "contiguous"

\* DType::bits / 8 for the dtypes the built-in casts tell apart.
DTypes == {"u8", "f16", "bf16", "f32"}
Width(dtype) ==
    CASE dtype = "u8" -> 1
      [] dtype \in {"f16", "bf16"} -> 2
      [] dtype = "f32" -> 4

Product(dims) ==
    LET Through[k \in 0 .. Len(dims)] == IF k = 0 THEN 1 ELSE Through[k - 1] * dims[k]
    IN  Through[Len(dims)]

Axes(shape) == DOMAIN shape

\* checked_element_count: the product is formed from the first dimension on,
\* and no intermediate product may overflow.
CountFits(shape) == \A k \in 0 .. Len(shape) : Product(SubSeq(shape, 1, k)) \in 0 .. MaxWord

\* contiguous_strides: products of the dimensions behind an axis.
ContiguousStrides(shape) == [a \in Axes(shape) |-> Product(SubSeq(shape, a + 1, Len(shape)))]
StridesFit(shape) ==
    \A a \in 1 .. Len(shape) + 1 : Product(SubSeq(shape, a, Len(shape))) \in 0 .. MaxWord

ByteLen(dtype, shape) == Product(shape) * Width(dtype)
ByteLenFits(dtype, shape) == CountFits(shape) /\ ByteLen(dtype, shape) \in 0 .. MaxWord

\* The axes longer than one, in ascending order of their strides.
VaryingAxes(shape, strides) ==
    SetToSortSeq({a \in Axes(shape) : shape[a] > 1},
                 LAMBDA a, b : strides[a] < strides[b] \/ (strides[a] = strides[b] /\ a < b))

\* validate_dense_strides: each stride is the size of what lies below it.
DenseStrides(shape, strides) ==
    LET axes == VaryingAxes(shape, strides)
        Below(k) == Product([j \in 1 .. k |-> shape[axes[j]]])
    IN  \/ Product(shape) = 0
        \/ /\ \A k \in DOMAIN axes : strides[axes[k]] = Below(k - 1)
           /\ Below(Len(axes)) = Product(shape)

\* Variant: a stride may be one element short of the span below it.
StorageStridesOverlap(shape, strides, storageElements) ==
    LET axes == VaryingAxes(shape, strides)
        Span(k) == FoldLeft(LAMBDA n, a : n + (shape[a] - 1) * strides[a], 1, SubSeq(axes, 1, k))
    IN  \/ Product(shape) = 0
        \/ /\ storageElements > 0
           /\ \A k \in DOMAIN axes : strides[axes[k]] + 1 >= Span(k - 1)
           /\ Span(Len(axes)) <= storageElements

\* validate_storage_strides: each stride leaves room for the span below it,
\* and the whole span lies within the allocation.
StorageStridesFit(shape, strides, storageElements) ==
    LET axes == VaryingAxes(shape, strides)
        Span(k) == FoldLeft(LAMBDA n, a : n + (shape[a] - 1) * strides[a], 1, SubSeq(axes, 1, k))
    IN  \/ Product(shape) = 0
        \/ /\ storageElements > 0
           /\ \A k \in DOMAIN axes : strides[axes[k]] >= Span(k - 1)
           /\ Span(Len(axes)) <= storageElements

\* The checks of TensorFacts::new on a candidate.
FactsAccepted(f) ==
    /\ Len(f.shape) = Len(f.storage)
    /\ Len(f.shape) = Len(f.logicalStrides)
    /\ Len(f.shape) = Len(f.strides)
    /\ CountFits(f.shape)
    /\ CountFits(f.storage)
    /\ DenseStrides(f.shape, f.logicalStrides)
    /\ StorageStridesFit(f.shape, f.strides, Product(f.storage))
    /\ f.layout = Contiguous => /\ StridesFit(f.shape)
                                /\ f.storage = f.shape
                                /\ f.strides = ContiguousStrides(f.shape)
    /\ ByteLenFits(f.dtype, f.storage)
    /\ f.bytes = ByteLen(f.dtype, f.storage)

\* TensorFacts::contiguous, where StridesFit(shape) and ByteLenFits hold.
ContiguousFacts(shape, dtype) ==
    [shape |-> shape, storage |-> shape, logicalStrides |-> ContiguousStrides(shape),
     strides |-> ContiguousStrides(shape), dtype |-> dtype, layout |-> Contiguous,
     bytes |-> ByteLen(dtype, shape)]
ContiguousFactsFit(shape, dtype) == StridesFit(shape) /\ ByteLenFits(dtype, shape)

CanonicalContiguous(f) ==
    /\ f.layout = Contiguous
    /\ f.shape = f.storage
    /\ f.logicalStrides = ContiguousStrides(f.shape)
    /\ f.strides = ContiguousStrides(f.shape)

\* logical_coordinate: the coordinates of the element with a row-major index.
Coordinates(linear, shape) ==
    [a \in Axes(shape) |-> (linear \div ContiguousStrides(shape)[a]) % shape[a]]

\* The sum of checked_offset_term over the axes.
ElementOffset(coordinates, strides) ==
    FoldLeft(LAMBDA n, a : n + coordinates[a] * strides[a], 0, [a \in DOMAIN strides |-> a])

ElementIndices(shape) == 0 .. Product(shape) - 1

=============================================================================
